---- MODULE Spec2Model ----
(***************************************************************************)
(* Meal planner backend: the SQLite store (database.py), the HTTP handlers *)
(* that write it (main.py) and the aggregation engine (calculations.py).   *)
(*                                                                         *)
(* Conventions of the model                                                *)
(*  - a table is the sequence of its rows in rowid order, a row a record;  *)
(*    a nullable foreign key that is NULL is 0 (primary keys start at 1    *)
(*    and the code tests them with "not x", which 0 and None both pass);   *)
(*  - a date is a day number, day 0 a Monday, so date.weekday() is d % 7   *)
(*    and "+ timedelta(days=n)" is "+ n";                                  *)
(*  - a Python dict is the sequence of its items in insertion order;       *)
(*  - a float is a whole number: a quantity counts units, and money, a     *)
(*    nutrient and a displayed quantity count thousandths (cost_per_unit 2 *)
(*    is 0.002 a unit), so round(x, 2) is "to the nearest 10".  In the     *)
(*    inputs every cost and portion quantity is even, every kcal value a   *)
(*    multiple of 8 and every other nutrient value a multiple of 4, which  *)
(*    keeps every rounded sum off an exact tie, the only place where       *)
(*    binary floating point and exact arithmetic could disagree.           *)
(***************************************************************************)
EXTENDS Integers, Sequences, FiniteSets, TLC

VARIABLES
    people,           \* table "people":          [id, name]
    ingredients,      \* table "ingredients":     [id, name, unit, cost_per_unit, *_per_unit]
    recipes,          \* table "recipes":         [id, name, meal_type]
    recipe_portions,  \* table "recipe_portions": [id, recipe_id, ingredient_id, person_id, quantity]
    week_plan,        \* table "week_plan":       [id, date, person_id, meal_type, recipe_id]
    snacks,           \* table "snacks":          [id, name, ingredient_id, default_quantity]
    snack_log,        \* table "snack_log":       [id, date, person_id, snack_id, consumed]
    ret,              \* the last call and what it returned
    inflight,         \* per caller, the locals of its running calculate_week_summary
    helpers,          \* Home Assistant: the state of each input_select / input_text helper
    plan_pages,       \* Notion: the pages of the Plan database of MealPlanner
    week_pages,       \* Notion: the pages of the database of NotionMealSync
    clock,            \* the seconds self.datetime() shows
    planner,          \* the MealPlanner app: its fields, its running sync, its queued callbacks
    notion_sync       \* the NotionMealSync app: its running sync and its queued callbacks

\* The variables of the two AppDaemon apps and of what they talk to.
bridge == <<helpers, plan_pages, week_pages, clock, planner, notion_sync>>

vars == <<people, ingredients, recipes, recipe_portions, week_plan, snacks, snack_log, ret,
          inflight, bridge>>

tables == <<people, ingredients, recipes, recipe_portions, week_plan, snacks, snack_log>>

\* The store as one value, as a handler's Session sees it.
db == [people |-> people, ingredients |-> ingredients, recipes |-> recipes,
       recipe_portions |-> recipe_portions, week_plan |-> week_plan,
       snacks |-> snacks, snack_log |-> snack_log]

(***************************************************************************)
(* Bounds of the model.                                                    *)
(***************************************************************************)
\* Dates run over 0..MaxDate (two weeks).
MaxDate == 13

\* A request body carries at most this many list items (portions, meals, snacks).
MaxItems == 2

\* A bulk update of SpecList carries at most this many meals.
MaxMeals == 1

Dates == 0..MaxDate

(***************************************************************************)
(* Generic helpers.                                                        *)
(***************************************************************************)
Range(s) == {s[i] : i \in DOMAIN s}

\* SQLite's rowid for a new row of a table without AUTOINCREMENT: max + 1.
NextId(table) ==
    IF table = <<>> THEN 1
    ELSE 1 + (CHOOSE m \in {r.id : r \in Range(table)} :
                  \A r \in Range(table) : r.id <= m)

\* All sequences over S of length at most n.
RECURSIVE SeqsUpTo(_, _)
SeqsUpTo(S, n) ==
    IF n = 0 THEN {<<>>}
    ELSE LET shorter == SeqsUpTo(S, n - 1)
         IN  shorter \cup {Append(s, x) : s \in {t \in shorter : Len(t) = n - 1}, x \in S}

\* builtins.round to a multiple of step, ties to even.
RoundTo(x, step) ==
    LET r == x % step
        lo == x - r
    IN  IF 2 * r < step THEN lo
        ELSE IF 2 * r > step THEN lo + step
        ELSE IF (lo \div step) % 2 = 0 THEN lo ELSE lo + step

\* round(x, 0), round(x, 1) and round(x, 2) of a value counted in thousandths.
Round0(x) == RoundTo(x, 1000)

Round1(x) == RoundTo(x, 100)

Round2(x) == RoundTo(x, 10)

\* str.__lt__ compares code points from the left; Codepoints spells the
\* names the model uses.
Codepoints ==
    [n \in {"Rice", "apple"} |->
        IF n = "Rice" THEN <<82, 105, 99, 101>> ELSE <<97, 112, 112, 108, 101>>]

RECURSIVE SeqLess(_, _)
SeqLess(a, b) ==
    IF b = <<>> THEN FALSE
    ELSE IF a = <<>> THEN TRUE
    ELSE IF Head(a) # Head(b) THEN Head(a) < Head(b)
    ELSE SeqLess(Tail(a), Tail(b))

StrLess(a, b) == SeqLess(Codepoints[a], Codepoints[b])

(***************************************************************************)
(* calculations.py: helper functions.                                      *)
(***************************************************************************)
\* get_week_start with isoweekday() (Monday 1) in place of weekday().
get_week_start_iso(target_date) == target_date - ((target_date % 7) + 1)

get_week_start(target_date) == target_date - (target_date % 7)

\* date.isoformat(): day 0 is Monday 2024-01-01 and the model's dates stay
\* in January, so the text is year, month and day of the month.
isoformat(d) == <<"2024", "01", d + 1>>

get_day_name(day_date) ==
    LET days == <<"mon", "tue", "wed", "thu", "fri", "sat", "sun">>
    IN  days[(day_date % 7) + 1]

\* is_wed_batch that forgets the meal type on Sunday.
is_wed_batch_sunday(meal_date, meal_type) ==
    get_day_name(meal_date) \in {"thu", "fri", "sat", "sun"}
        \/ (get_day_name(meal_date) = "wed" /\ meal_type = "dinner")

is_wed_batch(meal_date, meal_type) ==
    LET day_name == get_day_name(meal_date)
    IN  IF day_name = "wed" /\ meal_type = "dinner" THEN TRUE
        ELSE IF day_name \in {"thu", "fri", "sat"} THEN TRUE
        ELSE IF day_name = "sun" /\ meal_type \in {"breakfast", "lunch"} THEN TRUE
        ELSE FALSE

\* The batch test that keeps every meal.
in_batch_any(day_date, meal_type, batch) == TRUE

\* The batch test whose "sun" branch tests the day only.
in_batch_day_only(day_date, meal_type, batch) ==
    IF batch = "wed" THEN is_wed_batch(day_date, meal_type)
    ELSE ~is_wed_batch(day_date, "dinner")

\* The batch test of generate_shopping_list: TRUE when the meal is kept.
in_batch(day_date, meal_type, batch) ==
    IF batch = "wed" THEN is_wed_batch(day_date, meal_type)
    ELSE ~is_wed_batch(day_date, meal_type)

(***************************************************************************)
(* calculations.py: daily and weekly nutrition totals.                     *)
(***************************************************************************)
\* person_map.get(person_id, "Unknown"): a default name for a missing person.
person_map_get_default(d, person_id) ==
    LET hit == SelectSeq(d.people, LAMBDA p : p.id = person_id)
    IN  IF hit = <<>> THEN <<"Unknown">> ELSE <<hit[Len(hit)].name>>

\* person_map.get(person_id) of calculate_daily_totals: the sequence holding
\* the name, or <<>> for None.
person_map_get(d, person_id) ==
    LET hit == SelectSeq(d.people, LAMBDA p : p.id = person_id)
    IN  IF hit = <<>> THEN <<>> ELSE <<hit[Len(hit)].name>>

\* db.query(Ingredient).filter(Ingredient.id == id).first(), <<>> for None.
ingredient_first(d, ingredient_id) ==
    LET hit == SelectSeq(d.ingredients, LAMBDA g : g.id = ingredient_id)
    IN  IF hit = <<>> THEN <<>> ELSE <<hit[1]>>

\* db.query(Snack).filter(Snack.id == id).first(), <<>> for None.
snack_first(d, snack_id) ==
    LET hit == SelectSeq(d.snacks, LAMBDA s : s.id = snack_id)
    IN  IF hit = <<>> THEN <<>> ELSE <<hit[1]>>

\* The portion query that keeps one row per ingredient, the first.
portions_of_distinct(d, recipe_id, person_id) ==
    LET rows == SelectSeq(d.recipe_portions,
                          LAMBDA q : q.recipe_id = recipe_id /\ q.person_id = person_id)
        first == {i \in DOMAIN rows :
                     \A j \in 1..(i - 1) : rows[j].ingredient_id # rows[i].ingredient_id}
    IN  SelectSeq(rows, LAMBDA q : \E i \in first : rows[i] = q)

\* db.query(RecipePortion).filter(recipe_id == .., person_id == ..).all()
portions_of(d, recipe_id, person_id) ==
    SelectSeq(d.recipe_portions,
              LAMBDA q : q.recipe_id = recipe_id /\ q.person_id = person_id)

\* db.query(WeekPlan).filter(WeekPlan.date == target_date).all()
meals_on(d, target_date) ==
    SelectSeq(d.week_plan, LAMBDA m : m.date = target_date)

\* The snack-log query without the consumed filter.
consumed_snacks_on_any(d, target_date) ==
    SelectSeq(d.snack_log, LAMBDA e : e.date = target_date)

\* db.query(SnackLog).filter(date == target_date, consumed == True).all()
consumed_snacks_on(d, target_date) ==
    SelectSeq(d.snack_log, LAMBDA e : e.date = target_date /\ e.consumed = TRUE)

\* Index of a key in a dict of person rows, 0 when absent.
KeyIndex(totals, person) ==
    IF \E i \in DOMAIN totals : totals[i].person = person
    THEN CHOOSE i \in DOMAIN totals : totals[i].person = person
    ELSE 0

\* totals[person][n] += v[n] for the four nutrients, on a defaultdict whose
\* missing entry is all zero.
add_nutrients(totals, person, v) ==
    LET i == KeyIndex(totals, person)
    IN  IF i = 0
        THEN Append(totals, [person |-> person, kcal |-> v.kcal, protein |-> v.protein,
                             carbs |-> v.carbs, fat |-> v.fat])
        ELSE [totals EXCEPT ![i] = [person |-> person,
                                    kcal |-> @.kcal + v.kcal,
                                    protein |-> @.protein + v.protein,
                                    carbs |-> @.carbs + v.carbs,
                                    fat |-> @.fat + v.fat]]

\* The four products ingredient.x_per_unit * qty.
nutrients_of(ingredient, qty) ==
    [kcal |-> ingredient.kcal_per_unit * qty,
     protein |-> ingredient.protein_per_unit * qty,
     carbs |-> ingredient.carbs_per_unit * qty,
     fat |-> ingredient.fat_per_unit * qty]

\* "for portion in portions" of calculate_daily_totals, from portion i on.
RECURSIVE totals_portion_loop(_, _, _, _, _)
totals_portion_loop(d, portions, i, person_name, totals) ==
    IF i > Len(portions) THEN totals
    ELSE LET ingredient == ingredient_first(d, portions[i].ingredient_id)
         IN  IF ingredient = <<>>
             THEN totals_portion_loop(d, portions, i + 1, person_name, totals)
             ELSE totals_portion_loop(d, portions, i + 1, person_name,
                      add_nutrients(totals, person_name,
                                    nutrients_of(ingredient[1], portions[i].quantity)))

\* "for meal in meals" of calculate_daily_totals, from meal i on.
RECURSIVE totals_meal_loop(_, _, _, _)
totals_meal_loop(d, meals, i, totals) ==
    IF i > Len(meals) THEN totals
    ELSE LET meal == meals[i]
             person_name == person_map_get(d, meal.person_id)
         IN  IF meal.recipe_id = 0
             THEN totals_meal_loop(d, meals, i + 1, totals)
             ELSE IF person_name = <<>> \/ person_name = <<"">>
             THEN totals_meal_loop(d, meals, i + 1, totals)
             ELSE totals_meal_loop(d, meals, i + 1,
                      totals_portion_loop(d, portions_of(d, meal.recipe_id, meal.person_id),
                                          1, person_name[1], totals))

\* "for snack_entry in snacks" of calculate_daily_totals, from entry i on.
RECURSIVE totals_snack_loop(_, _, _, _)
totals_snack_loop(d, entries, i, totals) ==
    IF i > Len(entries) THEN totals
    ELSE LET snack_entry == entries[i]
             person_name == person_map_get(d, snack_entry.person_id)
             snack == snack_first(d, snack_entry.snack_id)
             ingredient == IF snack = <<>> THEN <<>>
                           ELSE ingredient_first(d, snack[1].ingredient_id)
         IN  IF person_name = <<>> \/ person_name = <<"">>
             THEN totals_snack_loop(d, entries, i + 1, totals)
             ELSE IF snack = <<>>
             THEN totals_snack_loop(d, entries, i + 1, totals)
             ELSE IF ingredient = <<>>
             THEN totals_snack_loop(d, entries, i + 1, totals)
             ELSE totals_snack_loop(d, entries, i + 1,
                      add_nutrients(totals, person_name[1],
                                    nutrients_of(ingredient[1], snack[1].default_quantity)))

\* calculate_daily_totals that starts from an all-zero entry for every
\* person with a name.
calculate_daily_totals_seeded(d, target_date) ==
    LET named == SelectSeq(d.people, LAMBDA p : p.name # "")
        seeded == [i \in DOMAIN named |->
                      [person |-> named[i].name, kcal |-> 0, protein |-> 0,
                       carbs |-> 0, fat |-> 0]]
        after_meals == totals_meal_loop(d, meals_on(d, target_date), 1, seeded)
    IN  totals_snack_loop(d, consumed_snacks_on(d, target_date), 1, after_meals)

calculate_daily_totals(d, target_date) ==
    LET after_meals == totals_meal_loop(d, meals_on(d, target_date), 1, <<>>)
    IN  totals_snack_loop(d, consumed_snacks_on(d, target_date), 1, after_meals)

\* "for person, nutrients in day_totals.items()" of calculate_weekly_totals.
RECURSIVE weekly_person_loop(_, _, _)
weekly_person_loop(day_totals, i, totals) ==
    IF i > Len(day_totals) THEN totals
    ELSE weekly_person_loop(day_totals, i + 1,
             add_nutrients(totals, day_totals[i].person, day_totals[i]))

\* The loop over range(6).
RECURSIVE weekly_day_loop_six(_, _, _, _)
weekly_day_loop_six(d, week_start, day_offset, totals) ==
    IF day_offset >= 6 THEN totals
    ELSE weekly_day_loop_six(d, week_start, day_offset + 1,
             weekly_person_loop(calculate_daily_totals(d, week_start + day_offset), 1, totals))

\* "for day_offset in range(7)" of calculate_weekly_totals, from day_offset on.
RECURSIVE weekly_day_loop(_, _, _, _)
weekly_day_loop(d, week_start, day_offset, totals) ==
    IF day_offset >= 7 THEN totals
    ELSE weekly_day_loop(d, week_start, day_offset + 1,
             weekly_person_loop(calculate_daily_totals(d, week_start + day_offset), 1, totals))

calculate_weekly_totals(d, week_start) == weekly_day_loop(d, week_start, 0, <<>>)

(***************************************************************************)
(* calculations.py: cost.                                                  *)
(***************************************************************************)
\* The portion loop of calculate_daily_cost with each product rounded to 2
\* decimals before it is added.
RECURSIVE cost_portion_loop_rounded(_, _, _, _)
cost_portion_loop_rounded(d, portions, i, total_cost) ==
    IF i > Len(portions) THEN total_cost
    ELSE LET ingredient == ingredient_first(d, portions[i].ingredient_id)
         IN  IF ingredient # <<>>
             THEN cost_portion_loop_rounded(d, portions, i + 1,
                      total_cost
                          + Round2(ingredient[1].cost_per_unit * portions[i].quantity))
             ELSE cost_portion_loop_rounded(d, portions, i + 1, total_cost)

\* "for portion in portions" of calculate_daily_cost, from portion i on.
RECURSIVE cost_portion_loop(_, _, _, _)
cost_portion_loop(d, portions, i, total_cost) ==
    IF i > Len(portions) THEN total_cost
    ELSE LET ingredient == ingredient_first(d, portions[i].ingredient_id)
         IN  IF ingredient # <<>>
             THEN cost_portion_loop(d, portions, i + 1,
                      total_cost + ingredient[1].cost_per_unit * portions[i].quantity)
             ELSE cost_portion_loop(d, portions, i + 1, total_cost)

\* The meal loop of calculate_daily_cost that does not skip a meal without
\* a recipe and filters the portions by recipe only when there is one.
RECURSIVE cost_meal_loop_any_recipe(_, _, _, _)
cost_meal_loop_any_recipe(d, meals, i, total_cost) ==
    IF i > Len(meals) THEN total_cost
    ELSE LET meal == meals[i]
             portions == IF meal.recipe_id = 0
                         THEN SelectSeq(d.recipe_portions,
                                        LAMBDA q : q.person_id = meal.person_id)
                         ELSE portions_of(d, meal.recipe_id, meal.person_id)
         IN  cost_meal_loop_any_recipe(d, meals, i + 1,
                 cost_portion_loop(d, portions, 1, total_cost))

\* "for meal in meals" of calculate_daily_cost, from meal i on.
RECURSIVE cost_meal_loop(_, _, _, _)
cost_meal_loop(d, meals, i, total_cost) ==
    IF i > Len(meals) THEN total_cost
    ELSE LET meal == meals[i]
         IN  IF meal.recipe_id = 0
             THEN cost_meal_loop(d, meals, i + 1, total_cost)
             ELSE cost_meal_loop(d, meals, i + 1,
                      cost_portion_loop(d, portions_of(d, meal.recipe_id, meal.person_id),
                                        1, total_cost))

\* "for snack_entry in snacks" of calculate_daily_cost, from entry i on.
RECURSIVE cost_snack_loop(_, _, _, _)
cost_snack_loop(d, entries, i, total_cost) ==
    IF i > Len(entries) THEN total_cost
    ELSE LET snack == snack_first(d, entries[i].snack_id)
             ingredient == IF snack = <<>> THEN <<>>
                           ELSE ingredient_first(d, snack[1].ingredient_id)
         IN  IF snack = <<>>
             THEN cost_snack_loop(d, entries, i + 1, total_cost)
             ELSE IF ingredient # <<>>
             THEN cost_snack_loop(d, entries, i + 1,
                      total_cost + ingredient[1].cost_per_unit * snack[1].default_quantity)
             ELSE cost_snack_loop(d, entries, i + 1, total_cost)

\* total_cost of calculate_daily_cost when it reaches the return statement.
daily_cost_sum(d, target_date) ==
    LET after_meals == cost_meal_loop(d, meals_on(d, target_date), 1, 0)
    IN  cost_snack_loop(d, consumed_snacks_on(d, target_date), 1, after_meals)

calculate_daily_cost(d, target_date) == Round2(daily_cost_sum(d, target_date))

\* The day loop of calculate_weekly_cost adding the days' unrounded sums.
RECURSIVE weekly_cost_loop_unrounded(_, _, _, _)
weekly_cost_loop_unrounded(d, week_start, day_offset, total_cost) ==
    IF day_offset >= 7 THEN total_cost
    ELSE weekly_cost_loop_unrounded(d, week_start, day_offset + 1,
             total_cost + daily_cost_sum(d, week_start + day_offset))

\* "for day_offset in range(7)" of calculate_weekly_cost, from day_offset on.
RECURSIVE weekly_cost_loop(_, _, _, _)
weekly_cost_loop(d, week_start, day_offset, total_cost) ==
    IF day_offset >= 7 THEN total_cost
    ELSE weekly_cost_loop(d, week_start, day_offset + 1,
             total_cost + calculate_daily_cost(d, week_start + day_offset))

calculate_weekly_cost(d, week_start) == Round2(weekly_cost_loop(d, week_start, 0, 0))

(***************************************************************************)
(* calculations.py: shopping list.                                         *)
(***************************************************************************)
\* The accumulation with "=" for "+=".
add_quantity_assign(ingredient_totals, ingredient_id, quantity) ==
    IF \E i \in DOMAIN ingredient_totals : ingredient_totals[i].ingredient_id = ingredient_id
    THEN LET i == CHOOSE j \in DOMAIN ingredient_totals :
                      ingredient_totals[j].ingredient_id = ingredient_id
         IN  [ingredient_totals EXCEPT ![i].total_qty = quantity]
    ELSE Append(ingredient_totals, [ingredient_id |-> ingredient_id, total_qty |-> quantity])

\* ingredient_totals[ingredient_id] += quantity on a defaultdict(float).
add_quantity(ingredient_totals, ingredient_id, quantity) ==
    IF \E i \in DOMAIN ingredient_totals : ingredient_totals[i].ingredient_id = ingredient_id
    THEN LET i == CHOOSE j \in DOMAIN ingredient_totals :
                      ingredient_totals[j].ingredient_id = ingredient_id
         IN  [ingredient_totals EXCEPT ![i].total_qty = @ + quantity]
    ELSE Append(ingredient_totals, [ingredient_id |-> ingredient_id, total_qty |-> quantity])

\* "for portion in portions" of generate_shopping_list, from portion i on.
RECURSIVE shop_portion_loop(_, _, _)
shop_portion_loop(portions, i, ingredient_totals) ==
    IF i > Len(portions) THEN ingredient_totals
    ELSE shop_portion_loop(portions, i + 1,
             add_quantity(ingredient_totals, portions[i].ingredient_id, portions[i].quantity))

\* "for meal in meals" of generate_shopping_list, from meal i on.
RECURSIVE shop_meal_loop(_, _, _, _, _, _)
shop_meal_loop(d, day_date, batch, meals, i, ingredient_totals) ==
    IF i > Len(meals) THEN ingredient_totals
    ELSE LET meal == meals[i]
         IN  IF meal.recipe_id = 0
             THEN shop_meal_loop(d, day_date, batch, meals, i + 1, ingredient_totals)
             ELSE IF ~in_batch(day_date, meal.meal_type, batch)
             THEN shop_meal_loop(d, day_date, batch, meals, i + 1, ingredient_totals)
             ELSE shop_meal_loop(d, day_date, batch, meals, i + 1,
                      shop_portion_loop(portions_of(d, meal.recipe_id, meal.person_id),
                                        1, ingredient_totals))

\* "for day_offset in range(7)" of generate_shopping_list, from day_offset on.
RECURSIVE shop_day_loop(_, _, _, _, _)
shop_day_loop(d, week_start, batch, day_offset, ingredient_totals) ==
    IF day_offset >= 7 THEN ingredient_totals
    ELSE shop_day_loop(d, week_start, batch, day_offset + 1,
             shop_meal_loop(d, week_start + day_offset, batch,
                            meals_on(d, week_start + day_offset), 1, ingredient_totals))

\* ingredient_totals of generate_shopping_list after the accumulation.
shopping_totals(d, week_start, batch) == shop_day_loop(d, week_start, batch, 0, <<>>)

\* The row with kg above 1000 g only.
shopping_row_above(ingredient, total_qty) ==
    LET cost == ingredient.cost_per_unit * total_qty
        promote == ingredient.unit = "g" /\ total_qty > 1000
        display_qty == IF promote THEN total_qty ELSE total_qty * 1000
        display_unit == IF promote THEN "kg" ELSE ingredient.unit
    IN  [ingredient |-> ingredient.name, quantity |-> Round2(display_qty),
         unit |-> display_unit, cost |-> Round2(cost)]

\* The row appended for one ingredient and its accumulated quantity.
shopping_row(ingredient, total_qty) ==
    LET cost == ingredient.cost_per_unit * total_qty
        promote == ingredient.unit = "g" /\ total_qty >= 1000
        display_qty == IF promote THEN total_qty ELSE total_qty * 1000
        display_unit == IF promote THEN "kg" ELSE ingredient.unit
    IN  [ingredient |-> ingredient.name, quantity |-> Round2(display_qty),
         unit |-> display_unit, cost |-> Round2(cost)]

\* "for ingredient_id, total_qty in ingredient_totals.items()", from item i on.
RECURSIVE shop_row_loop(_, _, _, _)
shop_row_loop(d, ingredient_totals, i, shopping_list) ==
    IF i > Len(ingredient_totals) THEN shopping_list
    ELSE LET ingredient == ingredient_first(d, ingredient_totals[i].ingredient_id)
         IN  IF ingredient = <<>>
             THEN shop_row_loop(d, ingredient_totals, i + 1, shopping_list)
             ELSE shop_row_loop(d, ingredient_totals, i + 1,
                      Append(shopping_list,
                             shopping_row(ingredient[1], ingredient_totals[i].total_qty)))

\* One insertion of list.sort(key=lambda x: x["ingredient"]): after every
\* row whose name is not greater (the sort is stable).
RECURSIVE sort_insert(_, _)
sort_insert(sorted, row) ==
    IF sorted = <<>> THEN <<row>>
    ELSE IF StrLess(row.ingredient, Head(sorted).ingredient)
         THEN <<row>> \o sorted
         ELSE <<Head(sorted)>> \o sort_insert(Tail(sorted), row)

\* The list left in the order of accumulation.
sort_by_ingredient_none(shopping_list) == shopping_list

RECURSIVE sort_by_ingredient(_)
sort_by_ingredient(shopping_list) ==
    IF shopping_list = <<>> THEN <<>>
    ELSE sort_insert(sort_by_ingredient(SubSeq(shopping_list, 1, Len(shopping_list) - 1)),
                     shopping_list[Len(shopping_list)])

generate_shopping_list(d, week_start, batch) ==
    sort_by_ingredient(shop_row_loop(d, shopping_totals(d, week_start, batch), 1, <<>>))

(***************************************************************************)
(* calculations.py: the week summary.                                      *)
(***************************************************************************)
\* The list comprehension that rounds each person's totals.
totals_rows(raw) ==
    [i \in DOMAIN raw |->
        [person |-> raw[i].person, kcal |-> Round0(raw[i].kcal),
         protein |-> Round1(raw[i].protein), carbs |-> Round1(raw[i].carbs),
         fat |-> Round1(raw[i].fat)]]

\* calculate_week_summary that takes the first day of the week for today.
calculate_week_summary_first_day(d, week_start_arg, today) ==
    LET week_start == IF week_start_arg = <<>> THEN get_week_start(today)
                      ELSE week_start_arg[1]
    IN  [today_cost |-> calculate_daily_cost(d, week_start),
         today_totals |-> totals_rows(calculate_daily_totals(d, week_start)),
         week_cost |-> calculate_weekly_cost(d, week_start),
         week_totals |-> totals_rows(calculate_weekly_totals(d, week_start)),
         wed_shopping |-> generate_shopping_list(d, week_start, "wed"),
         sun_shopping |-> generate_shopping_list(d, week_start, "sun"),
         week_start |-> isoformat(week_start),
         last_updated |-> isoformat(today)]

\* week_start_arg is <<>> for None; today is what date.today() returns.
calculate_week_summary(d, week_start_arg, today) ==
    LET week_start == IF week_start_arg = <<>> THEN get_week_start(today)
                      ELSE week_start_arg[1]
    IN  [today_cost |-> calculate_daily_cost(d, today),
         today_totals |-> totals_rows(calculate_daily_totals(d, today)),
         week_cost |-> calculate_weekly_cost(d, week_start),
         week_totals |-> totals_rows(calculate_weekly_totals(d, week_start)),
         wed_shopping |-> generate_shopping_list(d, week_start, "wed"),
         sun_shopping |-> generate_shopping_list(d, week_start, "sun"),
         week_start |-> isoformat(week_start),
         last_updated |-> isoformat(today)]

(***************************************************************************)
(* main.py: the handlers that write the store.                             *)
(***************************************************************************)
\* str.lower() on the strings the model uses.
Lower(str) ==
    CASE str = "Michael" -> "michael"
      [] str = "Lorna" -> "lorna"
      [] str = "Izzy" -> "izzy"
      [] str = "Curry" -> "curry"
      [] str = "Apple" -> "apple"
      [] str = "Soup" -> "soup"
      [] str = "Ghost" -> "ghost"
      [] str = "Wed" -> "wed"
      [] str = "Dinner" -> "dinner"
      [] OTHER -> str

\* The placeholder a blank input_select holds: the one character U+2014.
Dash == "-"

\* The literal bulk_update_week_plan compares recipe_name with (main.py line
\* 253): the three characters U+00E2 U+20AC U+201D, which are the UTF-8 bytes
\* of the placeholder read as cp1252.  It is not the placeholder.
DashLiteral == "U+00E2 U+20AC U+201D"

\* A handler's commit fails on a unique column (IntegrityError, HTTP 500).
NameTaken(table, name) == \E r \in Range(table) : r.name = name

create_person(person) ==
    /\ IF NameTaken(people, person.name)
       THEN /\ people' = people
            /\ ret' = [op |-> "create_person", status |-> 500]
       ELSE /\ people' = Append(people, [id |-> NextId(people), name |-> person.name])
            /\ ret' = [op |-> "create_person", status |-> 200]
    /\ UNCHANGED <<bridge, inflight, ingredients, recipes, recipe_portions, week_plan, snacks, snack_log>>

create_ingredient(ingredient) ==
    /\ IF NameTaken(ingredients, ingredient.name)
       THEN /\ ingredients' = ingredients
            /\ ret' = [op |-> "create_ingredient", status |-> 500]
       ELSE /\ ingredients' = Append(ingredients,
                                     [id |-> NextId(ingredients),
                                      name |-> ingredient.name,
                                      unit |-> ingredient.unit,
                                      cost_per_unit |-> ingredient.cost_per_unit,
                                      kcal_per_unit |-> ingredient.kcal_per_unit,
                                      protein_per_unit |-> ingredient.protein_per_unit,
                                      carbs_per_unit |-> ingredient.carbs_per_unit,
                                      fat_per_unit |-> ingredient.fat_per_unit])
            /\ ret' = [op |-> "create_ingredient", status |-> 200]
    /\ UNCHANGED <<bridge, inflight, people, recipes, recipe_portions, week_plan, snacks, snack_log>>

\* The rows "for portion in recipe.portions" adds, numbered from first_id.
new_portions(recipe_id, portions, first_id) ==
    [i \in DOMAIN portions |->
        [id |-> first_id + i - 1, recipe_id |-> recipe_id,
         ingredient_id |-> portions[i].ingredient_id,
         person_id |-> portions[i].person_id,
         quantity |-> portions[i].quantity]]

\* DELETE /ingredients/{ingredient_id}: 404 when there is no such row.  The
\* rows that point to the ingredient stay as they are.
delete_ingredient(ingredient_id) ==
    /\ IF ingredient_first(db, ingredient_id) = <<>>
       THEN /\ ingredients' = ingredients
            /\ ret' = [op |-> "delete_ingredient", status |-> 404]
       ELSE /\ ingredients' = SelectSeq(ingredients, LAMBDA g : g.id # ingredient_id)
            /\ ret' = [op |-> "delete_ingredient", status |-> 200]
    /\ UNCHANGED <<bridge, inflight, people, recipes, recipe_portions, week_plan, snacks, snack_log>>

create_recipe(recipe) ==
    /\ IF NameTaken(recipes, recipe.name)
       THEN /\ UNCHANGED <<recipes, recipe_portions>>
            /\ ret' = [op |-> "create_recipe", status |-> 500]
       ELSE /\ recipes' = Append(recipes, [id |-> NextId(recipes), name |-> recipe.name,
                                           meal_type |-> recipe.meal_type])
            /\ recipe_portions' = recipe_portions \o
                   new_portions(NextId(recipes), recipe.portions, NextId(recipe_portions))
            /\ ret' = [op |-> "create_recipe", status |-> 200]
    /\ UNCHANGED <<bridge, inflight, people, ingredients, week_plan, snacks, snack_log>>

create_snack(snack) ==
    /\ IF NameTaken(snacks, snack.name)
       THEN /\ snacks' = snacks
            /\ ret' = [op |-> "create_snack", status |-> 500]
       ELSE /\ snacks' = Append(snacks, [id |-> NextId(snacks), name |-> snack.name,
                                         ingredient_id |-> snack.ingredient_id,
                                         default_quantity |-> snack.default_quantity])
            /\ ret' = [op |-> "create_snack", status |-> 200]
    /\ UNCHANGED <<bridge, inflight, people, ingredients, recipes, recipe_portions, week_plan, snack_log>>

\* {r.name.lower(): r.id for r in rows}.get(key): 0 for None; of two rows
\* with the same key the later one wins.
name_map_get(rows, key) ==
    LET hit == SelectSeq(rows, LAMBDA r : Lower(r.name) = key)
    IN  IF hit = <<>> THEN 0 ELSE hit[Len(hit)].id

\* day_offsets.get(day): <<>> for None.
day_offsets_get(day) ==
    LET days == <<"mon", "tue", "wed", "thu", "fri", "sat", "sun">>
    IN  IF \E i \in DOMAIN days : days[i] = day
        THEN <<(CHOOSE i \in DOMAIN days : days[i] = day) - 1>>
        ELSE <<>>

\* Rows numbered from the table's next rowid, as the commit inserts them.
with_ids(table, added) ==
    [i \in DOMAIN added |-> [added[i] EXCEPT !.id = NextId(table) + i - 1]]

\* The find query without the condition on meal_type.
plan_first_any_meal(plan, meal_date, person_id, meal_type) ==
    LET hits == {i \in DOMAIN plan : /\ plan[i].date = meal_date
                                     /\ plan[i].person_id = person_id}
    IN  IF hits = {} THEN 0 ELSE CHOOSE i \in hits : \A j \in hits : i <= j

\* Index of the row query.filter(...).first() returns, 0 for None.  The
\* session does not autoflush, so the query sees stored rows only.
plan_first(plan, meal_date, person_id, meal_type) ==
    LET hits == {i \in DOMAIN plan : /\ plan[i].date = meal_date
                                     /\ plan[i].person_id = person_id
                                     /\ plan[i].meal_type = meal_type}
    IN  IF hits = {} THEN 0 ELSE CHOOSE i \in hits : \A j \in hits : i <= j

\* The loop with updated_count incremented at the top of the body, before the
\* two tests that skip a selection.
RECURSIVE plan_loop_counting_all(_, _, _, _)
plan_loop_counting_all(d, update, i, st) ==
    IF i > Len(update.meals) THEN st
    ELSE LET meal == update.meals[i]
             day_offset == day_offsets_get(Lower(meal.day))
             meal_date == update.week_start + day_offset[1]
             person_id == name_map_get(d.people, Lower(meal.person))
             recipe_id == IF meal.recipe_name # "" /\ meal.recipe_name # DashLiteral
                          THEN name_map_get(d.recipes, Lower(meal.recipe_name))
                          ELSE 0
             plan == plan_first(st.plan, meal_date, person_id, Lower(meal.meal_type))
             counted == [st EXCEPT !.updated_count = @ + 1]
         IN  IF day_offset = <<>> THEN plan_loop_counting_all(d, update, i + 1, counted)
             ELSE IF person_id = 0 THEN plan_loop_counting_all(d, update, i + 1, counted)
             ELSE IF plan # 0
             THEN plan_loop_counting_all(d, update, i + 1,
                      [counted EXCEPT !.plan[plan].recipe_id = recipe_id])
             ELSE plan_loop_counting_all(d, update, i + 1,
                      [counted EXCEPT !.added = Append(@, [id |-> 0, date |-> meal_date,
                                                           person_id |-> person_id,
                                                           meal_type |-> Lower(meal.meal_type),
                                                           recipe_id |-> recipe_id])])

\* "for meal in update.meals" of bulk_update_week_plan, from meal i on.  st is
\* [plan: the stored rows as the session holds them, added: the pending new
\* rows, updated_count].
RECURSIVE plan_loop(_, _, _, _)
plan_loop(d, update, i, st) ==
    IF i > Len(update.meals) THEN st
    ELSE LET meal == update.meals[i]
             day_offset == day_offsets_get(Lower(meal.day))
             meal_date == update.week_start + day_offset[1]
             person_id == name_map_get(d.people, Lower(meal.person))
             recipe_id == IF meal.recipe_name # "" /\ meal.recipe_name # DashLiteral
                          THEN name_map_get(d.recipes, Lower(meal.recipe_name))
                          ELSE 0
             plan == plan_first(st.plan, meal_date, person_id, Lower(meal.meal_type))
         IN  IF day_offset = <<>> THEN plan_loop(d, update, i + 1, st)
             ELSE IF person_id = 0 THEN plan_loop(d, update, i + 1, st)
             ELSE IF plan # 0
             THEN plan_loop(d, update, i + 1,
                      [st EXCEPT !.plan[plan].recipe_id = recipe_id,
                                 !.updated_count = @ + 1])
             ELSE plan_loop(d, update, i + 1,
                      [st EXCEPT !.added = Append(@, [id |-> 0, date |-> meal_date,
                                                      person_id |-> person_id,
                                                      meal_type |-> Lower(meal.meal_type),
                                                      recipe_id |-> recipe_id]),
                                 !.updated_count = @ + 1])

bulk_update_week_plan(update) ==
    LET st == plan_loop(db, update, 1,
                        [plan |-> week_plan, added |-> <<>>, updated_count |-> 0])
    IN  /\ week_plan' = st.plan \o with_ids(st.plan, st.added)
        /\ ret' = [op |-> "bulk_update_week_plan", updated_count |-> st.updated_count]
        /\ UNCHANGED <<bridge, inflight, people, ingredients, recipes, recipe_portions, snacks, snack_log>>

\* Index of the snack_log row query.filter(...).first() returns, 0 for None.
log_first(log, log_date, person_id, snack_id) ==
    LET hits == {i \in DOMAIN log : /\ log[i].date = log_date
                                    /\ log[i].person_id = person_id
                                    /\ log[i].snack_id = snack_id}
    IN  IF hits = {} THEN 0 ELSE CHOOSE i \in hits : \A j \in hits : i <= j

\* "for snack_sel in update.snacks" of bulk_update_snack_log, from item i on.
RECURSIVE log_loop(_, _, _, _)
log_loop(d, update, i, st) ==
    IF i > Len(update.snacks) THEN st
    ELSE LET snack_sel == update.snacks[i]
             person_id == name_map_get(d.people, Lower(snack_sel.person))
             snack_id == name_map_get(d.snacks, Lower(snack_sel.snack_name))
             log == log_first(st.log, snack_sel.date, person_id, snack_id)
         IN  IF person_id = 0 \/ snack_id = 0 THEN log_loop(d, update, i + 1, st)
             ELSE IF log # 0
             THEN log_loop(d, update, i + 1,
                      [st EXCEPT !.log[log].consumed = snack_sel.consumed,
                                 !.updated_count = @ + 1])
             ELSE log_loop(d, update, i + 1,
                      [st EXCEPT !.added = Append(@, [id |-> 0, date |-> snack_sel.date,
                                                      person_id |-> person_id,
                                                      snack_id |-> snack_id,
                                                      consumed |-> snack_sel.consumed]),
                                 !.updated_count = @ + 1])

bulk_update_snack_log(update) ==
    LET st == log_loop(db, update, 1,
                       [log |-> snack_log, added |-> <<>>, updated_count |-> 0])
    IN  /\ snack_log' = st.log \o with_ids(st.log, st.added)
        /\ ret' = [op |-> "bulk_update_snack_log", updated_count |-> st.updated_count]
        /\ UNCHANGED <<bridge, inflight, people, ingredients, recipes, recipe_portions, week_plan, snacks>>

(***************************************************************************)
(* Calls of the engine.  The engine only reads: a call leaves the tables   *)
(* alone and ret records its arguments and what it returned.               *)
(***************************************************************************)
\* One evaluation of the batch test of generate_shopping_list for one meal.
batch_test(day_date, meal_type, batch) ==
    /\ ret' = [op |-> "batch_test", day_date |-> day_date, meal_type |-> meal_type,
               batch |-> batch, kept |-> in_batch(day_date, meal_type, batch)]
    /\ UNCHANGED <<tables, inflight, bridge>>

\* The call with a get-or-create: a date without a week-plan row gets one.
call_daily_totals_creating(target_date) ==
    /\ ret' = [op |-> "calculate_daily_totals", target_date |-> target_date,
               value |-> calculate_daily_totals(db, target_date)]
    /\ week_plan' = IF meals_on(db, target_date) = <<>>
                    THEN Append(week_plan, [id |-> NextId(week_plan), date |-> target_date,
                                            person_id |-> 1, meal_type |-> "dinner",
                                            recipe_id |-> 0])
                    ELSE week_plan
    /\ UNCHANGED <<bridge, inflight, people, ingredients, recipes, recipe_portions, snacks, snack_log>>

call_daily_totals(target_date) ==
    /\ ret' = [op |-> "calculate_daily_totals", target_date |-> target_date,
               value |-> calculate_daily_totals(db, target_date)]
    /\ UNCHANGED <<tables, inflight, bridge>>

call_weekly_totals(week_start) ==
    /\ ret' = [op |-> "calculate_weekly_totals", week_start |-> week_start,
               value |-> calculate_weekly_totals(db, week_start)]
    /\ UNCHANGED <<tables, inflight, bridge>>

\* total_cost is the local of that name at the return statement.
call_daily_cost(target_date) ==
    /\ ret' = [op |-> "calculate_daily_cost", target_date |-> target_date,
               total_cost |-> daily_cost_sum(db, target_date),
               value |-> calculate_daily_cost(db, target_date)]
    /\ UNCHANGED <<tables, inflight, bridge>>

call_weekly_cost(week_start) ==
    /\ ret' = [op |-> "calculate_weekly_cost", week_start |-> week_start,
               value |-> calculate_weekly_cost(db, week_start)]
    /\ UNCHANGED <<tables, inflight, bridge>>

\* ingredient_totals is the local of that name after the accumulation.
call_shopping_list(week_start, batch) ==
    /\ ret' = [op |-> "generate_shopping_list", week_start |-> week_start,
               batch |-> batch,
               ingredient_totals |-> shopping_totals(db, week_start, batch),
               value |-> generate_shopping_list(db, week_start, batch)]
    /\ UNCHANGED <<tables, inflight, bridge>>

call_week_summary(week_start_arg, today) ==
    /\ ret' = [op |-> "calculate_week_summary", week_start_arg |-> week_start_arg,
               today |-> today,
               value |-> calculate_week_summary(db, week_start_arg, today)]
    /\ UNCHANGED <<tables, inflight, bridge>>

\* get_week_start(target_date); target_date_arg is <<>> for None, which
\* stands for date.today().
call_get_week_start(target_date_arg, today) ==
    /\ ret' = [op |-> "get_week_start", target_date_arg |-> target_date_arg,
               today |-> today,
               value |-> get_week_start(IF target_date_arg = <<>> THEN today
                                        ELSE target_date_arg[1])]
    /\ UNCHANGED <<tables, inflight, bridge>>

\* GET /week-totals.
get_week_totals(today) ==
    /\ ret' = [op |-> "get_week_totals", today |-> today,
               value |-> calculate_week_summary(db, <<get_week_start(today)>>, today)]
    /\ UNCHANGED <<tables, inflight, bridge>>

(***************************************************************************)
(* calculate_week_summary one query at a time.  Every request gets its own *)
(* Session from get_db and its own locals; inflight[c] holds the locals of *)
(* the invocation that caller c has running.  A step is one day of one of  *)
(* the loops (or one of the two calls for today): the queries of that day  *)
(* read the stored tables as they are at that moment.                      *)
(***************************************************************************)
Callers == {1, 2}

\* The locals before the invocation starts.  overlapped records that a step
\* was taken while another invocation was inside the same loop.
Idle ==
    [pc |-> "idle", week_start |-> 0, today |-> 0, day_offset |-> 0,
     totals |-> <<>>, total_cost |-> 0, ingredient_totals |-> <<>>,
     today_totals |-> <<>>, week_totals |-> <<>>, today_cost |-> 0, week_cost |-> 0,
     wed_shopping |-> <<>>, sun_shopping |-> <<>>, overlapped |-> FALSE]

AllIdle == \A c \in Callers : inflight[c].pc = "idle"

Interleaved(c) ==
    \E o \in Callers \ {c} : /\ inflight[o].pc = inflight[c].pc
                             /\ inflight[o].day_offset > 0

\* The accumulators as they would be if the invocations that are inside the
\* same loop shared one: the caller reads what the other one has summed.
running_shared(c) ==
    LET same == {o \in Callers \ {c} : /\ inflight[o].pc = inflight[c].pc
                                       /\ inflight[o].day_offset > 0}
    IN  IF same = {} THEN inflight[c]
        ELSE [inflight[c] EXCEPT
                 !.totals = inflight[CHOOSE o \in same : TRUE].totals,
                 !.total_cost = inflight[CHOOSE o \in same : TRUE].total_cost,
                 !.ingredient_totals = inflight[CHOOSE o \in same : TRUE].ingredient_totals]

\* The locals of the caller's own invocation: totals, total_cost and
\* ingredient_totals are created inside each call.
running(c) == inflight[c]

\* The caller's locals after one more step, with the loop counter moved on:
\* after the seventh day the loop's result is stored and the next call starts.
advance(c, l, next_pc) ==
    [l EXCEPT !.pc = IF inflight[c].day_offset = 6 THEN next_pc ELSE @,
              !.day_offset = IF inflight[c].day_offset = 6 THEN 0 ELSE @ + 1,
              !.overlapped = @ \/ Interleaved(c)]

\* The call is made: week_start and today are fixed.
begin_week_summary(c, week_start_arg, today) ==
    /\ inflight[c].pc = "idle"
    /\ inflight' = [inflight EXCEPT ![c] =
           [Idle EXCEPT !.pc = "today_totals",
                        !.week_start = IF week_start_arg = <<>> THEN get_week_start(today)
                                       ELSE week_start_arg[1],
                        !.today = today]]
    /\ UNCHANGED <<tables, ret, bridge>>

\* today_totals = calculate_daily_totals(db, today), rounded per person.
step_today_totals(c) ==
    /\ inflight[c].pc = "today_totals"
    /\ inflight' = [inflight EXCEPT ![c] =
           [@ EXCEPT !.pc = "week_totals",
                     !.today_totals = totals_rows(calculate_daily_totals(db, inflight[c].today))]]
    /\ UNCHANGED <<tables, ret, bridge>>

\* One day of the loop of calculate_weekly_totals.
step_week_totals(c) ==
    /\ inflight[c].pc = "week_totals"
    /\ LET l == running(c)
           totals == weekly_person_loop(
                         calculate_daily_totals(db, l.week_start + l.day_offset), 1, l.totals)
       IN  inflight' = [inflight EXCEPT ![c] =
               advance(c, [l EXCEPT !.totals = IF l.day_offset = 6 THEN <<>> ELSE totals,
                                    !.week_totals = IF l.day_offset = 6
                                                    THEN totals_rows(totals) ELSE @],
                       "today_cost")]
    /\ UNCHANGED <<tables, ret, bridge>>

\* today_cost = calculate_daily_cost(db, today).
step_today_cost(c) ==
    /\ inflight[c].pc = "today_cost"
    /\ inflight' = [inflight EXCEPT ![c] =
           [@ EXCEPT !.pc = "week_cost",
                     !.today_cost = calculate_daily_cost(db, inflight[c].today)]]
    /\ UNCHANGED <<tables, ret, bridge>>

\* One day of the loop of calculate_weekly_cost.
step_week_cost(c) ==
    /\ inflight[c].pc = "week_cost"
    /\ LET l == running(c)
           total_cost == l.total_cost + calculate_daily_cost(db, l.week_start + l.day_offset)
       IN  inflight' = [inflight EXCEPT ![c] =
               advance(c, [l EXCEPT !.total_cost = IF l.day_offset = 6 THEN 0 ELSE total_cost,
                                    !.week_cost = IF l.day_offset = 6
                                                  THEN Round2(total_cost) ELSE @],
                       "wed_shopping")]
    /\ UNCHANGED <<tables, ret, bridge>>

\* One day of the accumulation of generate_shopping_list; after the seventh
\* the rows are built from the ingredients table and sorted.
shopping_step(c, batch, next_pc) ==
    LET l == running(c)
        day_date == l.week_start + l.day_offset
        ingredient_totals == shop_meal_loop(db, day_date, batch, meals_on(db, day_date), 1,
                                            l.ingredient_totals)
        shopping_list == sort_by_ingredient(shop_row_loop(db, ingredient_totals, 1, <<>>))
        done == l.day_offset = 6
    IN  advance(c, [l EXCEPT !.ingredient_totals = IF done THEN <<>> ELSE ingredient_totals,
                             !.wed_shopping = IF done /\ batch = "wed" THEN shopping_list ELSE @,
                             !.sun_shopping = IF done /\ batch = "sun" THEN shopping_list ELSE @],
                next_pc)

step_wed_shopping(c) ==
    /\ inflight[c].pc = "wed_shopping"
    /\ inflight' = [inflight EXCEPT ![c] = shopping_step(c, "wed", "sun_shopping")]
    /\ UNCHANGED <<tables, ret, bridge>>

step_sun_shopping(c) ==
    /\ inflight[c].pc = "sun_shopping"
    /\ inflight' = [inflight EXCEPT ![c] = shopping_step(c, "sun", "return")]
    /\ UNCHANGED <<tables, ret, bridge>>

\* The return statement: the dict is built from the locals.
return_week_summary(c) ==
    /\ inflight[c].pc = "return"
    /\ ret' = [op |-> "week_summary_returned", caller |-> c,
               week_start |-> inflight[c].week_start, today |-> inflight[c].today,
               overlapped |-> inflight[c].overlapped,
               value |-> [today_cost |-> inflight[c].today_cost,
                          today_totals |-> inflight[c].today_totals,
                          week_cost |-> inflight[c].week_cost,
                          week_totals |-> inflight[c].week_totals,
                          wed_shopping |-> inflight[c].wed_shopping,
                          sun_shopping |-> inflight[c].sun_shopping,
                          week_start |-> isoformat(inflight[c].week_start),
                          last_updated |-> isoformat(inflight[c].today)]]
    /\ inflight' = [inflight EXCEPT ![c] = Idle]
    /\ UNCHANGED <<tables, bridge>>

(***************************************************************************)
(* appdaemon/apps/meal_planner.py: MealPlanner.                            *)
(*                                                                         *)
(* Conventions of this part of the model                                   *)
(*  - an entity id is the sequence of the parts of its name, the domain    *)
(*    first and then the words that "_" separates, so an f-string that     *)
(*    builds the id is a tuple and split("_") an index;                    *)
(*  - None is <<>> and a value that can be None is <<v>>;                  *)
(*  - a title that an f-string builds is the tuple of its parts;           *)
(*  - the date of self.datetime() is PlannerToday, its time is clock;      *)
(*  - a Notion request succeeds; the time it takes is the ticks of the     *)
(*    clock between two steps of a run;                                    *)
(*  - AppDaemon runs the callbacks of an app one after another, in the     *)
(*    order they were queued.                                              *)
(***************************************************************************)
\* The helpers Home Assistant has.
Entities ==
    {<<"input_select", "meal", "dinner", "wed", "michael">>,
     <<"input_select", "meal", "lunch", "wed", "michael">>,
     <<"input_text", "wed", "food", "shop", "list">>,
     <<"input_text", "sun", "food", "shop", "list">>,
     <<"input_text", "prep", "notes", "wed">>,
     <<"input_text", "cook", "notes", "wed">>}

\* The pages of the Meals database: [id, Name, MealType].
MealsPages ==
    <<[id |-> 1, name |-> "Curry", meal_type |-> "dinner"],
      [id |-> 2, name |-> "Soup", meal_type |-> "lunch"],
      [id |-> 3, name |-> "Stew", meal_type |-> "dinner"]>>

\* The date self.datetime() has (a Wednesday).
PlannerToday == 2

\* timedelta(seconds=5) of _sync_from_notion.
EchoWindow == 5

\* The clock stops at MaxClock.
MaxClock == 6

\* A callback queue holds at most MaxPending events of the user.
MaxPending == 2

\* The string as it is: what the blank test sees when it does not strip.
Strip_nothing(str) == str

\* str.strip() on the strings the model uses.
Strip(str) ==
    CASE str = " " -> ""
      [] str = " - " -> Dash
      [] str = " Michael " -> "Michael"
      [] str = " milk " -> "milk"
      [] OTHER -> str

\* str.capitalize() on the strings the model uses.
Capitalize(str) ==
    CASE str = "michael" -> "Michael"
      [] str = "lorna" -> "Lorna"
      [] str = "izzy" -> "Izzy"
      [] str = "dinner" -> "Dinner"
      [] str = "lunch" -> "Lunch"
      [] str = "breakfast" -> "Breakfast"
      [] OTHER -> str

\* self.get_state(entity): <<>> for an entity Home Assistant does not have.
get_state(entity) == IF entity \in DOMAIN helpers THEN <<helpers[entity]>> ELSE <<>>

\* The state of a helper after a service call that sets it.
set_state(entity, value) ==
    IF entity \in DOMAIN helpers THEN [helpers EXCEPT ![entity] = value] ELSE helpers

\* A state change reaches MealPlanner through listen_state: its listeners are
\* on the input_select.meal_* helpers and exist once initialize has run.
planner_hears(pl, entity, old, new, by) ==
    IF pl.initialized /\ entity[1] = "input_select" /\ entity[2] = "meal"
    THEN [pl EXCEPT !.pending = Append(@, [entity |-> entity, old |-> old, new |-> new,
                                           by |-> by])]
    ELSE pl

\* A state change reaches NotionMealSync: it listens to entities_to_watch().
sync_hears(ns, entity, old, new, by) ==
    IF ns.initialized
    THEN [ns EXCEPT !.pending = Append(@, [entity |-> entity, old |-> old, new |-> new,
                                           by |-> by])]
    ELSE ns

_week_start(dt) == dt - (dt % 7)

order == <<"mon", "tue", "wed", "thu", "fri", "sat", "sun">>

_date_for_dow(week_start_date, dow_short) ==
    week_start_date + (CHOOSE idx \in DOMAIN order : order[idx] = dow_short) - 1

\* <<>> for None.
_dow_from_date(dt, week_start) ==
    LET delta == dt - week_start
    IN  IF delta < 0 \/ delta > 6 THEN <<>> ELSE <<order[delta + 1]>>

\* The query of _sync_from_notion: the Plan pages with a date in the week.
plan_query_week(pages, week_start) ==
    SelectSeq(pages, LAMBDA p : /\ p.date # <<>>
                                /\ p.date[1] >= week_start
                                /\ p.date[1] <= week_start + 6)

\* self._get_page(meal_page_id): <<>> when the request fails.
_get_page(meal_page_id) ==
    LET hit == SelectSeq(MealsPages, LAMBDA m : m.id = meal_page_id)
    IN  IF hit = <<>> THEN <<>> ELSE <<hit[1]>>

\* The body of "for p in pages": <<>> when the page is skipped, else the
\* arguments of the call of _set_ha_helper.
sync_page_call(p, week_start) ==
    IF p.date = <<>> \/ p.person = <<>> \/ p.meal = <<>> THEN <<>>
    ELSE LET person == Strip(p.person[1])
             meal_page == _get_page(p.meal[1])
             dow == _dow_from_date(p.date[1], week_start)
             person_key == Lower(person)
         IN  IF person = "" THEN <<>>
             ELSE IF meal_page = <<>> THEN <<>>
             ELSE IF Strip(meal_page[1].name) = "" \/ meal_page[1].meal_type = "" THEN <<>>
             ELSE IF dow = <<>> THEN <<>>
             ELSE IF person_key \notin {"michael", "lorna", "izzy"} THEN <<>>
             ELSE IF Lower(meal_page[1].meal_type) \notin {"dinner", "lunch", "breakfast"}
             THEN <<>>
             ELSE <<[meal_type |-> Lower(meal_page[1].meal_type), dow |-> dow[1],
                     person |-> person_key, meal_name |-> Strip(meal_page[1].name)]>>

\* <<>> for None.
_find_meal_page_id(meal_name, meal_type) ==
    LET results == SelectSeq(MealsPages,
                             LAMBDA m : m.name = meal_name /\ m.meal_type = meal_type)
    IN  IF results = <<>> THEN <<>> ELSE <<results[1].id>>

\* The lookup of the Plan page that finds nothing.
_find_plan_page_id_nothing(pages, plan_title) == <<>>

\* <<>> for None.
_find_plan_page_id(pages, plan_title) ==
    LET results == SelectSeq(pages, LAMBDA p : p.title = plan_title)
    IN  IF results = <<>> THEN <<>> ELSE <<results[1].id>>

\* initialize(): the guard is None and the listeners are registered.
MealPlanner_initialize ==
    /\ ~planner.initialized
    /\ planner' = [planner EXCEPT !.initialized = TRUE, !.ignore_ha_events_until = <<>>]
    /\ UNCHANGED <<tables, ret, inflight, helpers, plan_pages, week_pages, clock, notion_sync>>

\* One second passes.
tick ==
    /\ clock < MaxClock
    /\ clock' = clock + 1
    /\ UNCHANGED <<tables, ret, inflight, helpers, plan_pages, week_pages, planner, notion_sync>>

\* _sync_from_notion up to the query: the week and the guard are set.  before
\* and writes record the helpers at the start of the run and the calls of
\* select_option the run has made.
_sync_from_notion_begin ==
    /\ planner.initialized
    /\ planner.pc = "idle"
    /\ planner' = [planner EXCEPT !.pc = "query",
                                  !.week_start = _week_start(PlannerToday),
                                  !.ignore_ha_events_until = <<clock + EchoWindow>>,
                                  !.before = helpers,
                                  !.writes = 0]
    /\ UNCHANGED <<tables, ret, inflight, helpers, plan_pages, week_pages, clock, notion_sync>>

\* The query of the Plan database returns.
_sync_from_notion_query ==
    /\ planner.pc = "query"
    /\ planner' = [planner EXCEPT !.pc = "pages",
                                  !.pages = plan_query_week(plan_pages, planner.week_start),
                                  !.i = 1]
    /\ UNCHANGED <<tables, ret, inflight, helpers, plan_pages, week_pages, clock, notion_sync>>

\* A _set_ha_helper that calls select_option whatever the helper holds.
_set_ha_helper_always(current, meal_name) == TRUE

\* _set_ha_helper: whether select_option is called, given what get_state
\* returned.
_set_ha_helper(current, meal_name) == current # <<meal_name>>

\* One turn of "for p in pages", with the call of _set_ha_helper.
_sync_from_notion_page ==
    /\ planner.pc = "pages"
    /\ planner.i <= Len(planner.pages)
    /\ LET call == sync_page_call(planner.pages[planner.i], planner.week_start)
           entity == <<"input_select", "meal", call[1].meal_type, call[1].dow, call[1].person>>
           current == get_state(entity)
           moved == [planner EXCEPT !.i = @ + 1]
       IN  IF call = <<>> \/ ~_set_ha_helper(current, call[1].meal_name)
           THEN /\ planner' = moved
                /\ UNCHANGED <<helpers, notion_sync>>
           ELSE /\ helpers' = set_state(entity, call[1].meal_name)
                /\ planner' = planner_hears([moved EXCEPT !.writes = @ + 1], entity,
                                            current, <<call[1].meal_name>>, "sync")
                /\ notion_sync' = sync_hears(notion_sync, entity, current,
                                             <<call[1].meal_name>>, "sync")
    /\ UNCHANGED <<tables, ret, inflight, plan_pages, week_pages, clock>>

\* The loop is over.  runs keeps what the last two runs read and wrote.
_sync_from_notion_end ==
    /\ planner.pc = "pages"
    /\ planner.i > Len(planner.pages)
    /\ planner' = [planner EXCEPT
           !.pc = "idle",
           !.pages = <<>>,
           !.i = 0,
           !.before = <<>>,
           !.runs = (IF @ = <<>> THEN <<>> ELSE <<@[Len(@)]>>) \o
                    <<[pages |-> planner.pages, before |-> planner.before,
                       after |-> helpers, writes |-> planner.writes]>>]
    /\ UNCHANGED <<tables, ret, inflight, helpers, plan_pages, week_pages, clock, notion_sync>>

\* The Plan database after the upsert of _on_ha_meal_changed.
upsert_plan(pages, existing_plan_page_id, props) ==
    IF existing_plan_page_id # <<>>
    THEN [i \in DOMAIN pages |->
             IF pages[i].id = existing_plan_page_id[1]
             THEN [props EXCEPT !.id = pages[i].id]
             ELSE pages[i]]
    ELSE Append(pages, [props EXCEPT !.id = NextId(pages)])

\* _on_ha_meal_changed for the event at the head of the queue.  last records
\* the event and the Notion requests the callback made.
_on_ha_meal_changed ==
    /\ planner.initialized
    /\ planner.pc = "idle"
    /\ planner.pending # <<>>
    /\ LET ev == Head(planner.pending)
           meal_type == ev.entity[3]
           dow == ev.entity[4]
           person == ev.entity[5]
           person_title == Capitalize(person)
           week_start == _week_start(PlannerToday)
           target_date == _date_for_dow(week_start, dow)
           plan_title == <<person_title, Capitalize(meal_type), isoformat(target_date)>>
           meal_page_id == _find_meal_page_id(ev.new[1], meal_type)
           existing_plan_page_id == _find_plan_page_id(plan_pages, plan_title)
           props == [id |-> 0, title |-> plan_title, date |-> <<target_date>>,
                     person |-> <<person_title>>, meal |-> meal_page_id]
           done(requests) ==
               planner' = [planner EXCEPT
                   !.pending = Tail(@),
                   !.last = <<[entity |-> ev.entity, old |-> ev.old, new |-> ev.new,
                               by |-> ev.by, requests |-> requests]>>]
       IN  IF ev.new = <<>> \/ ev.new = ev.old
           THEN done(<<>>) /\ UNCHANGED plan_pages
           ELSE IF Strip(ev.new[1]) \in {"", Dash}
           THEN done(<<>>) /\ UNCHANGED plan_pages
           ELSE IF /\ planner.ignore_ha_events_until # <<>>
                   /\ clock < planner.ignore_ha_events_until[1]
           THEN done(<<>>) /\ UNCHANGED plan_pages
           ELSE IF meal_page_id = <<>>
           THEN done(<<"query_meals">>) /\ UNCHANGED plan_pages
           ELSE /\ done(<<"query_meals", "query_plan",
                          IF existing_plan_page_id # <<>> THEN "update" ELSE "create">>)
                /\ plan_pages' = upsert_plan(plan_pages, existing_plan_page_id, props)
    /\ UNCHANGED <<tables, ret, inflight, helpers, week_pages, clock, notion_sync>>

\* The user picks an option of a helper in Home Assistant.
ha_user_selects(entity, option) ==
    /\ entity \in DOMAIN helpers
    /\ helpers[entity] # option
    /\ Len(planner.pending) < MaxPending
    /\ Len(notion_sync.pending) < MaxPending
    /\ helpers' = set_state(entity, option)
    /\ planner' = planner_hears(planner, entity, <<helpers[entity]>>, <<option>>, "user")
    /\ notion_sync' = sync_hears(notion_sync, entity, <<helpers[entity]>>, <<option>>, "user")
    /\ UNCHANGED <<tables, ret, inflight, plan_pages, week_pages, clock>>

\* Home Assistant reports a helper without a change of its state (an
\* attribute changed) or its removal (new is None).
ha_reports(entity, new) ==
    /\ entity \in DOMAIN helpers
    /\ new \in {<<>>, <<helpers[entity]>>}
    /\ Len(planner.pending) < MaxPending
    /\ Len(notion_sync.pending) < MaxPending
    /\ planner' = planner_hears(planner, entity, <<helpers[entity]>>, new, "user")
    /\ notion_sync' = sync_hears(notion_sync, entity, <<helpers[entity]>>, new, "user")
    /\ UNCHANGED <<tables, ret, inflight, helpers, plan_pages, week_pages, clock>>

\* The user adds a page to the Plan database in Notion.
notion_user_adds_plan_page(page) ==
    /\ \A p \in Range(plan_pages) : p.title # page.title
    /\ plan_pages' = Append(plan_pages, [page EXCEPT !.id = NextId(plan_pages)])
    /\ UNCHANGED <<tables, ret, inflight, helpers, week_pages, clock, planner, notion_sync>>

(***************************************************************************)
(* NotionMealSync (appdaemon/apps/notion_meal_sync.py).  week_pages is the *)
(* Notion database of the app: a page is [id, week_start, day, mealtype,   *)
(* person, meal, prep, cook, wed_shop, sun_shop], a select that is not set *)
(* is <<>>.  Every request succeeds.  notion_sync.last records the event   *)
(* of the last callback and the ids of the pages it changed.               *)
(***************************************************************************)
\* The database holds at most MaxWeekPages pages.
MaxWeekPages == 2

DAY_LABELS == <<"Mon", "Tue", "Wed", "Thu", "Fri", "Sat", "Sun">>

\* <<>> for a suffix the dictionary does not hold.
SUFFIX_TO_DAY_LABEL(day_suffix) ==
    IF \E n \in DOMAIN order : order[n] = day_suffix
    THEN <<DAY_LABELS[CHOOSE n \in DOMAIN order : order[n] = day_suffix]>>
    ELSE <<>>

SUFFIX_TO_PERSON_LABEL(person_suffix) ==
    IF person_suffix \in {"michael", "lorna", "izzy"} THEN <<Capitalize(person_suffix)>>
    ELSE <<>>

PREFIX_TO_MEALTYPE_LABEL(mealtype) ==
    IF mealtype \in {"dinner", "lunch", "breakfast"} THEN <<Capitalize(mealtype)>> ELSE <<>>

\* The entity of a (Day, MealType, Person) key: <<>> when a label is unknown.
meal_entity(key) ==
    IF /\ key[2] \in {"Dinner", "Lunch", "Breakfast"}
       /\ key[1] \in Range(DAY_LABELS)
       /\ key[3] \in {"Michael", "Lorna", "Izzy"}
    THEN <<<<"input_select", "meal", Lower(key[2]), Lower(key[1]), Lower(key[3])>>>>
    ELSE <<>>

monday_of_this_week == PlannerToday - (PlannerToday % 7)

notion_query_week(pages, week_start_date) ==
    SelectSeq(pages, LAMBDA page : page.week_start = week_start_date)

\* The joined plain text of a rich_text property, stripped.
get_text(text) == Strip(text)

\* set_helper: the value of the service call.
set_helper(entity_id, value) ==
    IF entity_id[1] = "input_select" /\ value = "" THEN Dash ELSE value

\* wed_shop / sun_shop of sync_notion_to_ha: the first text that is not empty.
first_text(texts) ==
    LET found == SelectSeq(texts, LAMBDA text : get_text(text) # "")
    IN  IF found = <<>> THEN "" ELSE get_text(found[1])

\* The key of a page in idx: <<>> when Day, MealType or Person is not set.
idx_key(page) ==
    IF page.day # <<>> /\ page.mealtype # <<>> /\ page.person # <<>>
    THEN <<<<page.day[1], page.mealtype[1], page.person[1]>>>>
    ELSE <<>>

\* idx[key]: the data of the last page with the key, <<>> without one.
idx_get(rows, key) ==
    LET with_key == SelectSeq(rows, LAMBDA page : idx_key(page) = <<key>>)
    IN  IF with_key = <<>> THEN <<>>
        ELSE LET page == with_key[Len(with_key)]
             IN  <<[page_id |-> page.id,
                    meal |-> IF page.meal = <<>> THEN "" ELSE page.meal[1],
                    prep |-> get_text(page.prep), cook |-> get_text(page.cook)]>>

\* The keys of idx in the order of their first insertion.
RECURSIVE idx_keys(_)
idx_keys(rows) ==
    IF rows = <<>> THEN <<>>
    ELSE LET before == idx_keys(SubSeq(rows, 1, Len(rows) - 1))
             key == idx_key(rows[Len(rows)])
         IN  IF key = <<>> \/ key[1] \in Range(before) THEN before
             ELSE Append(before, key[1])

\* The row the day notes are taken from: the Michael Dinner row, else the
\* first row found for the day.
picked_for(rows, day_label) ==
    LET tries == <<<<day_label, "Dinner", "Michael">>>> \o
                 [n \in 1..9 |->
                     <<day_label, <<"Dinner", "Lunch", "Breakfast">>[((n - 1) \div 3) + 1],
                       <<"Michael", "Lorna", "Izzy">>[((n - 1) % 3) + 1]>>]
        found == SelectSeq(tries, LAMBDA key : idx_get(rows, key) # <<>>)
    IN  IF found = <<>> THEN <<>> ELSE idx_get(rows, found[1])

\* The calls of set_helper of one run, in order: the two shopping lists, the
\* notes of each day, the meals.
RECURSIVE note_calls(_, _)
note_calls(rows, n) ==
    IF n > Len(DAY_LABELS) THEN <<>>
    ELSE LET picked == picked_for(rows, DAY_LABELS[n])
         IN  (IF picked = <<>> THEN <<>>
              ELSE <<[entity |-> <<"input_text", "prep", "notes", order[n]>>,
                      value |-> picked[1].prep],
                     [entity |-> <<"input_text", "cook", "notes", order[n]>>,
                      value |-> picked[1].cook]>>)
             \o note_calls(rows, n + 1)

RECURSIVE meal_calls(_, _)
meal_calls(rows, keys) ==
    IF keys = <<>> THEN <<>>
    ELSE LET ent == meal_entity(Head(keys))
             data == idx_get(rows, Head(keys))[1]
         IN  (IF ent = <<>> THEN <<>>
              ELSE <<[entity |-> ent[1],
                      value |-> IF data.meal = "" THEN Dash ELSE data.meal]>>)
             \o meal_calls(rows, Tail(keys))

sync_calls(rows) ==
    <<[entity |-> <<"input_text", "wed", "food", "shop", "list">>,
       value |-> first_text([n \in DOMAIN rows |-> rows[n].wed_shop])],
      [entity |-> <<"input_text", "sun", "food", "shop", "list">>,
       value |-> first_text([n \in DOMAIN rows |-> rows[n].sun_shop])]>>
    \o note_calls(rows, 1)
    \o meal_calls(rows, idx_keys(rows))

\* Home Assistant after the service calls: the helpers and the state changes
\* it reports, one for each call that changed a state.
RECURSIVE call_services(_, _, _)
call_services(calls, states, events) ==
    IF calls = <<>> THEN [helpers |-> states, events |-> events]
    ELSE LET entity == Head(calls).entity
             value == set_helper(entity, Head(calls).value)
         IN  IF entity \in DOMAIN states /\ states[entity] # value
             THEN call_services(Tail(calls), [states EXCEPT ![entity] = value],
                                Append(events, [entity |-> entity,
                                                old |-> <<states[entity]>>,
                                                new |-> <<value>>, by |-> "sync"]))
             ELSE call_services(Tail(calls), states, events)

\* initialize(): the poll is scheduled and the listeners are registered.
NotionMealSync_initialize ==
    /\ ~notion_sync.initialized
    /\ notion_sync' = [notion_sync EXCEPT !.initialized = TRUE]
    /\ UNCHANGED <<tables, ret, inflight, helpers, plan_pages, week_pages, clock, planner>>

\* One run of sync_notion_to_ha.
sync_notion_to_ha ==
    /\ notion_sync.initialized
    /\ LET rows == notion_query_week(week_pages, monday_of_this_week)
           done == call_services(sync_calls(rows), helpers, <<>>)
       IN  /\ helpers' = done.helpers
           /\ notion_sync' = [notion_sync EXCEPT !.pending = @ \o done.events]
           /\ planner' = IF planner.initialized
                         THEN [planner EXCEPT !.pending = @ \o
                                  SelectSeq(done.events,
                                            LAMBDA e : /\ e.entity[1] = "input_select"
                                                       /\ e.entity[2] = "meal")]
                         ELSE planner
    /\ UNCHANGED <<tables, ret, inflight, plan_pages, week_pages, clock>>

\* The pages after on_ha_change(entity, old, new) with old != new; value is
\* new or "".
pages_after_change(pages, entity, value) ==
    LET rows == notion_query_week(pages, monday_of_this_week)
        ids == {rows[n].id : n \in DOMAIN rows}
        day_label == SUFFIX_TO_DAY_LABEL(entity[Len(entity)])
        on_day(page) == day_label # <<>> /\ page.id \in ids /\ page.day = day_label
        mealtype_label == PREFIX_TO_MEALTYPE_LABEL(entity[3])
        meal_day == SUFFIX_TO_DAY_LABEL(entity[4])
        person_label == SUFFIX_TO_PERSON_LABEL(entity[5])
        matching == SelectSeq(rows, LAMBDA page : /\ page.day = meal_day
                                                  /\ page.mealtype = mealtype_label
                                                  /\ page.person = person_label)
    IN  IF entity = <<"input_text", "wed", "food", "shop", "list">>
        THEN [n \in DOMAIN pages |->
                 IF pages[n].id \in ids THEN [pages[n] EXCEPT !.wed_shop = value]
                 ELSE pages[n]]
        ELSE IF entity = <<"input_text", "sun", "food", "shop", "list">>
        THEN [n \in DOMAIN pages |->
                 IF pages[n].id \in ids THEN [pages[n] EXCEPT !.sun_shop = value]
                 ELSE pages[n]]
        ELSE IF entity[1] = "input_text" /\ entity[2] = "prep" /\ entity[3] = "notes"
        THEN [n \in DOMAIN pages |->
                 IF on_day(pages[n]) THEN [pages[n] EXCEPT !.prep = value] ELSE pages[n]]
        ELSE IF entity[1] = "input_text" /\ entity[2] = "cook" /\ entity[3] = "notes"
        THEN [n \in DOMAIN pages |->
                 IF on_day(pages[n]) THEN [pages[n] EXCEPT !.cook = value] ELSE pages[n]]
        ELSE IF entity[1] = "input_select" /\ entity[2] = "meal"
        THEN IF mealtype_label = <<>> \/ meal_day = <<>> \/ person_label = <<>>
                \/ matching = <<>>
             THEN pages
             ELSE [n \in DOMAIN pages |->
                      IF pages[n].id = matching[1].id
                      THEN [pages[n] EXCEPT !.meal = <<IF value = "" THEN Dash ELSE value>>]
                      ELSE pages[n]]
        ELSE pages

\* on_ha_change for the event at the head of the queue.
on_ha_change ==
    /\ notion_sync.initialized
    /\ notion_sync.pending # <<>>
    /\ LET ev == Head(notion_sync.pending)
           after == IF ev.old = ev.new THEN week_pages
                    ELSE pages_after_change(week_pages, ev.entity,
                                            IF ev.new = <<>> THEN "" ELSE ev.new[1])
       IN  /\ week_pages' = after
           /\ notion_sync' = [notion_sync EXCEPT
                  !.pending = Tail(@),
                  !.last = <<[entity |-> ev.entity, old |-> ev.old, new |-> ev.new,
                              by |-> ev.by,
                              changed |-> {week_pages[n].id : n \in
                                              {m \in DOMAIN week_pages :
                                                  after[m] # week_pages[m]}}]>>]
    /\ UNCHANGED <<tables, ret, inflight, helpers, plan_pages, clock, planner>>

\* The user adds a page to the database in Notion.
notion_user_adds_week_page(page) ==
    /\ Len(week_pages) < MaxWeekPages
    /\ week_pages' = Append(week_pages, [page EXCEPT !.id = NextId(week_pages)])
    /\ UNCHANGED <<tables, ret, inflight, helpers, plan_pages, clock, planner, notion_sync>>

(***************************************************************************)
(* The store after startup: init_db creates the tables and                 *)
(* seed_initial_data adds the three people.                                *)
(***************************************************************************)
Init ==
    /\ people = <<[id |-> 1, name |-> "Michael"], [id |-> 2, name |-> "Lorna"],
                  [id |-> 3, name |-> "Izzy"]>>
    /\ ingredients = <<>>
    /\ recipes = <<>>
    /\ recipe_portions = <<>>
    /\ week_plan = <<>>
    /\ snacks = <<>>
    /\ snack_log = <<>>
    /\ ret = [op |-> "startup"]
    /\ inflight = [c \in Callers |-> Idle]
    /\ helpers = [entity \in Entities |->
                     IF entity[1] = "input_select" THEN Dash ELSE ""]
    /\ plan_pages = <<>>
    /\ week_pages = <<>>
    /\ clock = 0
    /\ planner = [initialized |-> FALSE, ignore_ha_events_until |-> <<>>, pending |-> <<>>,
                  pc |-> "idle", week_start |-> 0, pages |-> <<>>, i |-> 0,
                  before |-> <<>>, writes |-> 0, runs |-> <<>>, last |-> <<>>]
    /\ notion_sync = [initialized |-> FALSE, pending |-> <<>>, last |-> <<>>]

(***************************************************************************)
(* Request bodies.                                                         *)
(***************************************************************************)
Rice == [name |-> "Rice", unit |-> "g", cost_per_unit |-> 2, kcal_per_unit |-> 1304,
         protein_per_unit |-> 28, carbs_per_unit |-> 284, fat_per_unit |-> 4]

Apple == [name |-> "apple", unit |-> "item", cost_per_unit |-> 504,
          kcal_per_unit |-> 52000, protein_per_unit |-> 300,
          carbs_per_unit |-> 13800, fat_per_unit |-> 200]

IngredientInputs == {Rice, Apple}

MealTypes == {"breakfast", "lunch", "dinner"}

Batches == {"wed", "sun"}

(***************************************************************************)
(* SpecWindow: the batch test on every date, meal type and batch.          *)
(***************************************************************************)
NextWindow ==
    \E day_date \in Dates, meal_type \in MealTypes \cup {"snack"}, batch \in Batches :
        batch_test(day_date, meal_type, batch)

SpecWindow == Init /\ [][NextWindow]_vars

(***************************************************************************)
(* SpecShop: one ingredient, one recipe with portions for two people and   *)
(* week-plan slots in both windows, and the shopping list.  Ingredient 2   *)
(* is never created: its portions point to no row.                         *)
(***************************************************************************)
ShopPortionInputs ==
    {[ingredient_id |-> 1, person_id |-> 1, quantity |-> 998],
     [ingredient_id |-> 1, person_id |-> 2, quantity |-> 1000],
     [ingredient_id |-> 2, person_id |-> 1, quantity |-> 1000]}

ShopRecipeInputs ==
    {[name |-> "Curry", meal_type |-> "dinner", portions |-> ps] :
        ps \in SeqsUpTo(ShopPortionInputs, MaxItems)}

ShopMealInputs ==
    {[day |-> "wed", person |-> "michael", meal_type |-> "dinner", recipe_name |-> "Curry"],
     [day |-> "sun", person |-> "Lorna", meal_type |-> "lunch", recipe_name |-> "curry"],
     [day |-> "wed", person |-> "michael", meal_type |-> "lunch", recipe_name |-> "Curry"]}

ShopPlanInputs == {[week_start |-> 0, meals |-> <<meal>>] : meal \in ShopMealInputs}

ShopWeekStarts == {0, 3}

NextShop ==
    \/ create_ingredient(Rice)
    \/ \E recipe \in ShopRecipeInputs : create_recipe(recipe)
    \/ \E update \in ShopPlanInputs : bulk_update_week_plan(update)
    \/ \E week_start \in ShopWeekStarts, batch \in Batches :
           call_shopping_list(week_start, batch)

SpecShop == Init /\ [][NextShop]_vars

(***************************************************************************)
(* SpecList: two ingredients created in either order, one recipe with      *)
(* portions of both for one person, one week-plan slot, and the shopping   *)
(* list.                                                                   *)
(***************************************************************************)
ListPortionInputs ==
    {[ingredient_id |-> 1, person_id |-> 1, quantity |-> 998],
     [ingredient_id |-> 1, person_id |-> 1, quantity |-> 1000],
     [ingredient_id |-> 2, person_id |-> 1, quantity |-> 1000],
     [ingredient_id |-> 2, person_id |-> 1, quantity |-> 0]}

ListRecipeInputs ==
    {[name |-> "Curry", meal_type |-> "dinner", portions |-> ps] :
        ps \in SeqsUpTo(ListPortionInputs, MaxItems)}

ListMealInputs ==
    {[day |-> "Wed", person |-> "Michael", meal_type |-> "Dinner", recipe_name |-> "Curry"]}

ListPlanInputs ==
    {[week_start |-> 0, meals |-> ms] : ms \in SeqsUpTo(ListMealInputs, MaxMeals) \ {<<>>}}

NextList ==
    \/ \E ingredient \in IngredientInputs : create_ingredient(ingredient)
    \/ \E recipe \in ListRecipeInputs : create_recipe(recipe)
    \/ \E update \in ListPlanInputs : bulk_update_week_plan(update)
    \/ \E batch \in Batches : call_shopping_list(0, batch)

SpecList == Init /\ [][NextList]_vars

(***************************************************************************)
(* SpecWeek: one ingredient, a recipe with portions for two people, two    *)
(* week-plan slots and a snack logged on another day, and the totals of a  *)
(* day and of a week.                                                      *)
(***************************************************************************)
WeekPortionInputs ==
    {[ingredient_id |-> 1, person_id |-> 1, quantity |-> 998],
     [ingredient_id |-> 1, person_id |-> 2, quantity |-> 1000]}

WeekRecipeInputs ==
    {[name |-> "Curry", meal_type |-> "dinner", portions |-> ps] :
        ps \in SeqsUpTo(WeekPortionInputs, MaxItems)}

WeekMealInputs ==
    {[day |-> "wed", person |-> "michael", meal_type |-> "dinner", recipe_name |-> "Curry"],
     [day |-> "sun", person |-> "lorna", meal_type |-> "lunch", recipe_name |-> "Curry"]}

WeekPlanInputs == {[week_start |-> 0, meals |-> <<meal>>] : meal \in WeekMealInputs}

AppleSnack == [name |-> "Apple", ingredient_id |-> 1, default_quantity |-> 1]

WeekSnackInputs ==
    {[snacks |-> <<[date |-> 6, person |-> "michael", snack_name |-> "apple",
                    consumed |-> c]>>] : c \in BOOLEAN}

WeekDates == {2, 6}

WeekStarts == {0, 3}

NextWeek ==
    \/ create_ingredient(Apple)
    \/ \E recipe \in WeekRecipeInputs : create_recipe(recipe)
    \/ create_snack(AppleSnack)
    \/ \E update \in WeekPlanInputs : bulk_update_week_plan(update)
    \/ \E update \in WeekSnackInputs : bulk_update_snack_log(update)
    \/ \E target_date \in WeekDates : call_daily_totals(target_date)
    \/ \E week_start \in WeekStarts : call_weekly_totals(week_start)

SpecWeek == Init /\ [][NextWeek]_vars

(***************************************************************************)
(* SpecDay: a fourth person whose name is empty, one ingredient, a recipe  *)
(* and a snack, week-plan and snack-log rows on one day for a named person *)
(* and for the nameless one, and the totals and the cost of that day.      *)
(***************************************************************************)
Nameless == [name |-> ""]

DayRecipe ==
    [name |-> "Curry", meal_type |-> "dinner",
     portions |-> <<[ingredient_id |-> 1, person_id |-> 1, quantity |-> 998],
                    [ingredient_id |-> 1, person_id |-> 4, quantity |-> 1000]>>]

DayMealInputs ==
    {[day |-> "wed", person |-> "michael", meal_type |-> "dinner", recipe_name |-> "Curry"],
     [day |-> "wed", person |-> "", meal_type |-> "dinner", recipe_name |-> "Curry"]}

DayPlanInputs == {[week_start |-> 0, meals |-> <<meal>>] : meal \in DayMealInputs}

DaySnackSelections ==
    {[date |-> 2, person |-> "michael", snack_name |-> "apple", consumed |-> TRUE],
     [date |-> 2, person |-> "michael", snack_name |-> "apple", consumed |-> FALSE],
     [date |-> 2, person |-> "", snack_name |-> "apple", consumed |-> TRUE],
     [date |-> 2, person |-> "izzy", snack_name |-> "apple", consumed |-> FALSE]}

DaySnackInputs == {[snacks |-> <<sel>>] : sel \in DaySnackSelections}

NextDay ==
    \/ create_person(Nameless)
    \/ create_ingredient(Apple)
    \/ create_recipe(DayRecipe)
    \/ create_snack(AppleSnack)
    \/ \E update \in DayPlanInputs : bulk_update_week_plan(update)
    \/ \E update \in DaySnackInputs : bulk_update_snack_log(update)
    \/ call_daily_totals(2)
    \/ call_daily_cost(2)

SpecDay == Init /\ [][NextDay]_vars

(***************************************************************************)
(* SpecSummary: one ingredient, a snack logged on a day of each of two     *)
(* weeks, a recipe planned in each of the two weeks, and the week summary  *)
(* for a given week, for the default week and through GET /week-totals.    *)
(***************************************************************************)
SummaryRecipe ==
    [name |-> "Curry", meal_type |-> "dinner",
     portions |-> <<[ingredient_id |-> 1, person_id |-> 1, quantity |-> 2]>>]

SummaryPlanInputs ==
    {[week_start |-> w,
      meals |-> <<[day |-> "wed", person |-> "michael", meal_type |-> "dinner",
                   recipe_name |-> "Curry"]>>] : w \in {0, 7}}

SummarySnackInputs ==
    {[snacks |-> <<[date |-> d, person |-> "michael", snack_name |-> "apple",
                    consumed |-> TRUE]>>] : d \in {3, 9}}

SummaryTodays == {3, 9}

SummaryWeekArgs == {<<>>, <<0>>, <<7>>}

NextSummary ==
    \/ create_ingredient(Apple)
    \/ create_recipe(SummaryRecipe)
    \/ create_snack(AppleSnack)
    \/ \E update \in SummaryPlanInputs : bulk_update_week_plan(update)
    \/ \E update \in SummarySnackInputs : bulk_update_snack_log(update)
    \/ \E week_start_arg \in SummaryWeekArgs, today \in SummaryTodays :
           call_week_summary(week_start_arg, today)
    \/ \E today \in SummaryTodays : get_week_totals(today)
    \/ \E target_date_arg \in {<<>>} \cup {<<d>> : d \in Dates}, today \in SummaryTodays :
           call_get_week_start(target_date_arg, today)

SpecSummary == Init /\ [][NextSummary]_vars

(***************************************************************************)
(* SpecCost: one ingredient at 0.504 a unit, a snack of it logged on two   *)
(* days, a recipe of it planned on one of them, and the cost of a day and  *)
(* of a week with the totals of the week.                                  *)
(***************************************************************************)
CostRecipe ==
    [name |-> "Curry", meal_type |-> "dinner",
     portions |-> <<[ingredient_id |-> 1, person_id |-> 1, quantity |-> 2]>>]

CostPlanInputs ==
    {[week_start |-> 0,
      meals |-> <<[day |-> "wed", person |-> "michael", meal_type |-> "dinner",
                   recipe_name |-> "Curry"]>>]}

CostSnackInputs ==
    {[snacks |-> <<[date |-> d, person |-> p, snack_name |-> "apple",
                    consumed |-> TRUE]>>] : d \in {2, 6}, p \in {"michael", "lorna"}}

CostDates == {2, 6}

CostWeekStarts == {0, 3}

NextCost ==
    \/ create_ingredient(Apple)
    \/ create_recipe(CostRecipe)
    \/ create_snack(AppleSnack)
    \/ \E update \in CostPlanInputs : bulk_update_week_plan(update)
    \/ \E update \in CostSnackInputs : bulk_update_snack_log(update)
    \/ \E target_date \in CostDates : call_daily_cost(target_date)
    \/ \E week_start \in CostWeekStarts : call_weekly_cost(week_start)
    \/ \E week_start \in CostWeekStarts : call_weekly_totals(week_start)

SpecCost == Init /\ [][NextCost]_vars

(***************************************************************************)
(* SpecNull: one ingredient, one recipe, and week-plan slots that are set  *)
(* to the recipe, to the placeholder, to the empty name and to the name of *)
(* no recipe, with every result of the engine for their days and week.     *)
(***************************************************************************)
NullMealInputs ==
    {[day |-> "wed", person |-> "michael", meal_type |-> "dinner", recipe_name |-> "Curry"],
     [day |-> "wed", person |-> "michael", meal_type |-> "dinner", recipe_name |-> Dash],
     [day |-> "wed", person |-> "michael", meal_type |-> "lunch", recipe_name |-> ""],
     [day |-> "sun", person |-> "michael", meal_type |-> "lunch", recipe_name |-> "Soup"],
     [day |-> "sun", person |-> "michael", meal_type |-> "lunch", recipe_name |-> "Curry"]}

NullPlanInputs == {[week_start |-> 0, meals |-> <<meal>>] : meal \in NullMealInputs}

NullDates == {2, 6}

NextNull ==
    \/ create_ingredient(Apple)
    \/ create_recipe(CostRecipe)
    \/ \E update \in NullPlanInputs : bulk_update_week_plan(update)
    \/ \E target_date \in NullDates : call_daily_totals(target_date)
    \/ \E target_date \in NullDates : call_daily_cost(target_date)
    \/ call_weekly_totals(0)
    \/ call_weekly_cost(0)
    \/ \E batch \in Batches : call_shopping_list(0, batch)

SpecNull == Init /\ [][NextNull]_vars

(***************************************************************************)
(* SpecDangling: an ingredient that is created and deleted, a recipe with  *)
(* portions of it, of an ingredient that never exists and for a person     *)
(* that never exists, a snack of each ingredient, and the totals, the cost *)
(* and the shopping list.                                                  *)
(***************************************************************************)
DanglingRecipe ==
    [name |-> "Curry", meal_type |-> "dinner",
     portions |-> <<[ingredient_id |-> 1, person_id |-> 1, quantity |-> 2],
                    [ingredient_id |-> 2, person_id |-> 1, quantity |-> 2],
                    [ingredient_id |-> 1, person_id |-> 9, quantity |-> 2]>>]

GhostSnack == [name |-> "Ghost", ingredient_id |-> 2, default_quantity |-> 1]

DanglingPlanInputs ==
    {[week_start |-> 0,
      meals |-> <<[day |-> "wed", person |-> "michael", meal_type |-> "dinner",
                   recipe_name |-> "Curry"]>>]}

DanglingSnackInputs ==
    {[snacks |-> <<[date |-> 2, person |-> "michael", snack_name |-> x,
                    consumed |-> TRUE]>>] : x \in {"apple", "ghost"}}

NextDangling ==
    \/ create_ingredient(Apple)
    \/ delete_ingredient(1)
    \/ create_recipe(DanglingRecipe)
    \/ \E snack \in {AppleSnack, GhostSnack} : create_snack(snack)
    \/ \E update \in DanglingPlanInputs : bulk_update_week_plan(update)
    \/ \E update \in DanglingSnackInputs : bulk_update_snack_log(update)
    \/ call_daily_totals(2)
    \/ call_daily_cost(2)
    \/ \E batch \in Batches : call_shopping_list(0, batch)

SpecDangling == Init /\ [][NextDangling]_vars

(***************************************************************************)
(* SpecDup: one ingredient, a recipe that may hold the same portion twice, *)
(* planned for one person in two meal slots of one day, a snack, and the   *)
(* totals of that day.                                                     *)
(***************************************************************************)
DupPortionInputs ==
    {[ingredient_id |-> 1, person_id |-> 1, quantity |-> 2],
     [ingredient_id |-> 1, person_id |-> 1, quantity |-> 4]}

DupRecipeInputs ==
    {[name |-> "Curry", meal_type |-> "dinner", portions |-> ps] :
        ps \in SeqsUpTo(DupPortionInputs, MaxItems)}

DupPlanInputs ==
    {[week_start |-> 0,
      meals |-> <<[day |-> "wed", person |-> "michael", meal_type |-> m,
                   recipe_name |-> "Curry"]>>] : m \in {"lunch", "dinner"}}

DupSnackInputs ==
    {[snacks |-> <<[date |-> 2, person |-> "michael", snack_name |-> "apple",
                    consumed |-> TRUE]>>]}

NextDup ==
    \/ create_ingredient(Apple)
    \/ \E recipe \in DupRecipeInputs : create_recipe(recipe)
    \/ create_snack(AppleSnack)
    \/ \E update \in DupPlanInputs : bulk_update_week_plan(update)
    \/ \E update \in DupSnackInputs : bulk_update_snack_log(update)
    \/ call_daily_totals(2)

SpecDup == Init /\ [][NextDup]_vars

(***************************************************************************)
(* SpecConc: two callers run calculate_week_summary at the same time, one  *)
(* query at a time in any interleaving, one for this week and one for the  *)
(* next.  The store is written only while no invocation is running.       *)
(***************************************************************************)
\* Caller 1 asks for the current week (no argument), caller 2 for the next.
ConcCalls == {[caller |-> 1, week_start_arg |-> <<>>], [caller |-> 2, week_start_arg |-> <<7>>]}

ConcTodays == {2}

ConcPlanInputs ==
    {[week_start |-> week_start,
      meals |-> <<[day |-> "wed", person |-> "michael", meal_type |-> "dinner",
                   recipe_name |-> "Curry"]>>] : week_start \in {0, 7}}

quiet_create_ingredient == AllIdle /\ create_ingredient(Apple)

quiet_create_recipe == AllIdle /\ create_recipe(CostRecipe)

quiet_bulk_update_week_plan ==
    AllIdle /\ \E update \in ConcPlanInputs : bulk_update_week_plan(update)

NextConc ==
    \/ quiet_create_ingredient
    \/ quiet_create_recipe
    \/ quiet_bulk_update_week_plan
    \/ \E call \in ConcCalls, today \in ConcTodays :
          begin_week_summary(call.caller, call.week_start_arg, today)
    \/ \E c \in Callers : step_today_totals(c)
    \/ \E c \in Callers : step_week_totals(c)
    \/ \E c \in Callers : step_today_cost(c)
    \/ \E c \in Callers : step_week_cost(c)
    \/ \E c \in Callers : step_wed_shopping(c)
    \/ \E c \in Callers : step_sun_shopping(c)
    \/ \E c \in Callers : return_week_summary(c)

SpecConc == Init /\ [][NextConc]_vars

(***************************************************************************)
(* SpecEngine: a store with one ingredient, recipe, snack, week-plan row   *)
(* and snack-log row, and every function of the engine called on it.       *)
(***************************************************************************)
EngineSnackInputs ==
    {[snacks |-> <<[date |-> 2, person |-> "michael", snack_name |-> "apple",
                    consumed |-> TRUE]>>]}

EngineDates == {2, 6}

EngineWeekStarts == {0}

EngineWeekArgs == {<<>>, <<0>>}

NextEngine ==
    \/ create_ingredient(Apple)
    \/ create_recipe(CostRecipe)
    \/ create_snack(AppleSnack)
    \/ \E update \in CostPlanInputs : bulk_update_week_plan(update)
    \/ \E update \in EngineSnackInputs : bulk_update_snack_log(update)
    \/ \E target_date \in EngineDates : call_daily_totals(target_date)
    \/ \E week_start \in EngineWeekStarts : call_weekly_totals(week_start)
    \/ \E target_date \in EngineDates : call_daily_cost(target_date)
    \/ \E week_start \in EngineWeekStarts : call_weekly_cost(week_start)
    \/ \E week_start \in EngineWeekStarts, batch \in Batches :
          call_shopping_list(week_start, batch)
    \/ \E week_start_arg \in EngineWeekArgs, today \in EngineDates :
          call_week_summary(week_start_arg, today)
    \/ \E today \in EngineDates : get_week_totals(today)

SpecEngine == Init /\ [][NextEngine]_vars

(***************************************************************************)
(* SpecPlan: bulk updates of the week plan.  Two recipes can be stored,    *)
(* one of them named by the placeholder; the requests name a slot once or  *)
(* twice, in either case of letters, with a recipe, the placeholder, the   *)
(* empty name or the name of no recipe, and with a day that is no day and  *)
(* a person that is no person.                                             *)
(***************************************************************************)
DashRecipe == [name |-> Dash, meal_type |-> "dinner", portions |-> <<>>]

PlanRecipeInputs == {CostRecipe, DashRecipe}

MichaelDinner(recipe_name) ==
    [day |-> "wed", person |-> "michael", meal_type |-> "dinner", recipe_name |-> recipe_name]

MichaelLunch(recipe_name) ==
    [day |-> "wed", person |-> "michael", meal_type |-> "lunch", recipe_name |-> recipe_name]

PlanMealsInputs ==
    {<<MichaelDinner("Curry")>>,
     <<MichaelDinner(Dash)>>,
     <<MichaelDinner("")>>,
     <<MichaelDinner("Curry"), MichaelDinner(Dash)>>,
     <<[day |-> "Wed", person |-> "Michael", meal_type |-> "Dinner", recipe_name |-> "curry"],
       [day |-> "someday", person |-> "michael", meal_type |-> "dinner",
        recipe_name |-> "Curry"]>>,
     <<[day |-> "wed", person |-> "nobody", meal_type |-> "dinner", recipe_name |-> "Curry"],
       MichaelLunch("Soup")>>,
     <<MichaelLunch("Curry")>>,
     <<[day |-> "someday", person |-> "michael", meal_type |-> "dinner",
        recipe_name |-> "Curry"],
       [day |-> "wed", person |-> "nobody", meal_type |-> "dinner", recipe_name |-> "Curry"]>>}

PlanUpdateInputs == {[week_start |-> 0, meals |-> meals] : meals \in PlanMealsInputs}

NextPlan ==
    \/ \E recipe \in PlanRecipeInputs : create_recipe(recipe)
    \/ \E update \in PlanUpdateInputs : bulk_update_week_plan(update)

SpecPlan == Init /\ [][NextPlan]_vars

(***************************************************************************)
(* SpecEcho: MealPlanner pulls a week of Plan pages that the user made in  *)
(* Notion while the clock runs, and handles the state changes its own      *)
(* writes cause.                                                           *)
(***************************************************************************)
UserPage(name, person, meal_page_id) ==
    [id |-> 0, title |-> <<name>>, date |-> <<PlannerToday>>, person |-> <<person>>,
     meal |-> <<meal_page_id>>]

EchoPageInputs == {UserPage("dinner of Wednesday", "Michael", 1)}

NextEcho ==
    \/ MealPlanner_initialize
    \/ tick
    \/ \E page \in EchoPageInputs : notion_user_adds_plan_page(page)
    \/ _sync_from_notion_begin
    \/ _sync_from_notion_query
    \/ _sync_from_notion_page
    \/ _sync_from_notion_end
    \/ _on_ha_meal_changed

SpecEcho == Init /\ [][NextEcho]_vars

(***************************************************************************)
(* SpecUpsert: the user changes the two meal helpers of Wednesday, Home    *)
(* Assistant reports them without a change, and MealPlanner handles each   *)
(* event.  No sync runs, so the guard stays None.  The Plan database can   *)
(* hold a page the user made with the title the app builds.                *)
(***************************************************************************)
MealEntities == {entity \in Entities : entity[1] = "input_select"}

DinnerHelper == <<"input_select", "meal", "dinner", "wed", "michael">>

LunchHelper == <<"input_select", "meal", "lunch", "wed", "michael">>

\* What the user picks: a dinner, another dinner, a lunch on the dinner
\* helper, the placeholder with and without blanks around it, and for lunch
\* a lunch or a blank.
UpsertSelections ==
    {<<DinnerHelper, "Curry">>, <<DinnerHelper, "Stew">>, <<DinnerHelper, "Soup">>,
     <<DinnerHelper, Dash>>, <<DinnerHelper, " - ">>,
     <<LunchHelper, "Soup">>, <<LunchHelper, " ">>}

UpsertPageInputs ==
    {[id |-> 0, title |-> <<"Michael", "Dinner", isoformat(PlannerToday)>>,
      date |-> <<PlannerToday>>, person |-> <<"Michael">>, meal |-> <<3>>]}

NextUpsert ==
    \/ MealPlanner_initialize
    \/ \E page \in UpsertPageInputs : notion_user_adds_plan_page(page)
    \/ \E selection \in UpsertSelections : ha_user_selects(selection[1], selection[2])
    \/ \E entity \in MealEntities : \E new \in {<<>>, get_state(entity)} :
          ha_reports(entity, new)
    \/ _on_ha_meal_changed

SpecUpsert == Init /\ [][NextUpsert]_vars

(***************************************************************************)
(* Properties of the batch windows (SpecWindow).                           *)
(***************************************************************************)
OtherBatch(batch) == IF batch = "wed" THEN "sun" ELSE "wed"

\* The ten slots of the Wednesday window and the eleven of the Sunday window,
\* written out.
WedWindowSlots ==
    {<<"wed", "dinner">>,
     <<"thu", "breakfast">>, <<"thu", "lunch">>, <<"thu", "dinner">>,
     <<"fri", "breakfast">>, <<"fri", "lunch">>, <<"fri", "dinner">>,
     <<"sat", "breakfast">>, <<"sat", "lunch">>, <<"sat", "dinner">>,
     <<"sun", "breakfast">>, <<"sun", "lunch">>}

SunWindowSlots ==
    {<<"sun", "dinner">>,
     <<"mon", "breakfast">>, <<"mon", "lunch">>, <<"mon", "dinner">>,
     <<"tue", "breakfast">>, <<"tue", "lunch">>, <<"tue", "dinner">>,
     <<"wed", "breakfast">>, <<"wed", "lunch">>}

\* C1: for each of the 21 slots exactly one of the two batch tests keeps the
\* slot: the "wed" test keeps it iff is_wed_batch is true, the "sun" test iff
\* it is false, so the test for the other batch gives the opposite answer.
C1_WindowsPartition ==
    (ret.op = "batch_test" /\ ret.meal_type \in MealTypes) =>
        /\ ret.kept # in_batch(ret.day_date, ret.meal_type, OtherBatch(ret.batch))
        /\ ret.batch = "wed" => (ret.kept <=> is_wed_batch(ret.day_date, ret.meal_type))
        /\ ret.batch = "sun" => (ret.kept <=> ~is_wed_batch(ret.day_date, ret.meal_type))

\* A Wednesday lunch is kept by the "sun" test (and so dropped by "wed").
C1_Witness ==
    /\ ret.op = "batch_test"
    /\ ret.batch = "sun"
    /\ ret.day_date % 7 = 2
    /\ ret.meal_type = "lunch"
    /\ ret.kept

\* The slots of one week (dates 0..6) a batch test keeps.
KeptSlots(batch) ==
    {<<get_day_name(x[1]), x[2]>> :
        x \in {y \in (0..6) \X MealTypes : in_batch(y[1], y[2], batch)}}

\* C2 as stated: the "wed" test keeps exactly the slots Wed-dinner, Thu-*,
\* Fri-*, Sat-*, Sun-breakfast and Sun-lunch, which are ten, and the "sun"
\* test exactly the others, which are eleven.
C2_AsStated ==
    ret.op = "batch_test" =>
        /\ KeptSlots("wed") = WedWindowSlots
        /\ KeptSlots("sun") = SunWindowSlots
        /\ Cardinality(KeptSlots("wed")) = 10
        /\ Cardinality(KeptSlots("sun")) = 11

\* C2, amended: the "wed" test keeps exactly the slots Wed-dinner, Thu-*,
\* Fri-*, Sat-*, Sun-breakfast and Sun-lunch, which are twelve, and the "sun"
\* test exactly the other nine (Sun-dinner, Mon-*, Tue-*, Wed-breakfast,
\* Wed-lunch), on every date.
C2_WindowSlots ==
    (ret.op = "batch_test" /\ ret.meal_type \in MealTypes) =>
        LET slot == <<get_day_name(ret.day_date), ret.meal_type>>
        IN  /\ ret.batch = "wed" => (ret.kept <=> slot \in WedWindowSlots)
            /\ ret.batch = "sun" => (ret.kept <=> slot \in SunWindowSlots)
            /\ KeptSlots("wed") = WedWindowSlots
            /\ KeptSlots("sun") = SunWindowSlots
            /\ Cardinality(KeptSlots("wed")) = 12
            /\ Cardinality(KeptSlots("sun")) = 9

\* A Sunday lunch is kept by the "wed" test.
C2_Witness ==
    /\ ret.op = "batch_test"
    /\ ret.batch = "wed"
    /\ get_day_name(ret.day_date) = "sun"
    /\ ret.meal_type = "lunch"
    /\ ret.kept


(***************************************************************************)
(* Properties of the shopping list (SpecShop).                             *)
(***************************************************************************)
\* The pairs <<m, q>> of a week-plan row and a portion row that the row
\* resolves to: the row is one of the 7 days from week_start, has a recipe,
\* and the portion is of that recipe and that person.
WeekPortions(d, week_start) ==
    {x \in (DOMAIN d.week_plan) \X (DOMAIN d.recipe_portions) :
        /\ d.week_plan[x[1]].date \in week_start..(week_start + 6)
        /\ d.week_plan[x[1]].recipe_id # 0
        /\ d.recipe_portions[x[2]].recipe_id = d.week_plan[x[1]].recipe_id
        /\ d.recipe_portions[x[2]].person_id = d.week_plan[x[1]].person_id}

\* The window a week-plan row belongs to.
WindowOf(row) == IF <<get_day_name(row.date), row.meal_type>> \in WedWindowSlots
                 THEN "wed" ELSE "sun"

\* The sum of the portion quantities of a set of pairs, for one ingredient.
RECURSIVE SumQuantity(_, _, _)
SumQuantity(d, pairs, ingredient_id) ==
    IF pairs = {} THEN 0
    ELSE LET x == CHOOSE y \in pairs : TRUE
             q == d.recipe_portions[x[2]]
         IN  (IF q.ingredient_id = ingredient_id THEN q.quantity ELSE 0)
                 + SumQuantity(d, pairs \ {x}, ingredient_id)

WeekSum(d, week_start, ingredient_id) ==
    SumQuantity(d, WeekPortions(d, week_start), ingredient_id)

WindowPortions(d, week_start, batch) ==
    {x \in WeekPortions(d, week_start) : WindowOf(d.week_plan[x[1]]) = batch}

WindowSum(d, week_start, batch, ingredient_id) ==
    SumQuantity(d, WindowPortions(d, week_start, batch), ingredient_id)

\* The quantity a dict of accumulated quantities holds for an ingredient.
Accumulated(ingredient_totals, ingredient_id) ==
    LET hit == SelectSeq(ingredient_totals, LAMBDA e : e.ingredient_id = ingredient_id)
    IN  IF hit = <<>> THEN 0 ELSE hit[1].total_qty

PortionIngredientIds == {q.ingredient_id : q \in Range(recipe_portions)}

\* C3: every portion of a week-plan row with a recipe is accumulated in the
\* list of the row's window and in no other: per ingredient the list's
\* accumulated quantity is the sum over the window's rows, and the two lists'
\* quantities add up to the sum over all rows of the 7 days.
C3_WindowSplit ==
    ret.op = "generate_shopping_list" =>
        \A i \in PortionIngredientIds :
            LET here == Accumulated(ret.ingredient_totals, i)
                there == Accumulated(
                             shopping_totals(db, ret.week_start, OtherBatch(ret.batch)), i)
            IN  /\ here = WindowSum(db, ret.week_start, ret.batch, i)
                /\ here + there = WeekSum(db, ret.week_start, i)

\* The "sun" list of a week whose only portions of some ingredient are in the
\* Wednesday window: the ingredient is not accumulated and has no row.
C3_Witness ==
    /\ ret.op = "generate_shopping_list"
    /\ ret.batch = "sun"
    /\ \E g \in Range(ingredients) :
           /\ WindowSum(db, ret.week_start, "wed", g.id) > 0
           /\ WindowSum(db, ret.week_start, "sun", g.id) = 0
           /\ \A e \in Range(ret.ingredient_totals) : e.ingredient_id # g.id
           /\ \A r \in Range(ret.value) : r.ingredient # g.name
    /\ ret.ingredient_totals # <<>>

\* The row of an ingredient for an accumulated quantity: the cost and the
\* quantity rounded to 2 decimals, grams shown as kg from 1000 on.
RowFor(g, total) ==
    [ingredient |-> g.name,
     quantity |-> IF g.unit = "g" /\ total >= 1000 THEN Round2(total) ELSE 1000 * total,
     unit |-> IF g.unit = "g" /\ total >= 1000 THEN "kg" ELSE g.unit,
     cost |-> Round2(g.cost_per_unit * total)]

\* C4: the list has at most one row per ingredient, and the row shows the sum
\* of all portion quantities of the window, whoever the person and whichever
\* the meal and day, and the cost of that sum.
C4_Consolidated ==
    ret.op = "generate_shopping_list" =>
        /\ \A i, j \in DOMAIN ret.value :
               ret.value[i].ingredient = ret.value[j].ingredient => i = j
        /\ \A r \in Range(ret.value) :
               \E g \in Range(ingredients) :
                   r = RowFor(g, WindowSum(db, ret.week_start, ret.batch, g.id))

\* One row that sums portions of two different people, from rows of two
\* different days.
C4_Witness ==
    /\ ret.op = "generate_shopping_list"
    /\ \E x, y \in WindowPortions(db, ret.week_start, ret.batch) :
           /\ recipe_portions[x[2]].ingredient_id = recipe_portions[y[2]].ingredient_id
           /\ recipe_portions[x[2]].person_id # recipe_portions[y[2]].person_id
           /\ week_plan[x[1]].date # week_plan[y[1]].date
           /\ recipe_portions[x[2]].quantity > 0
           /\ recipe_portions[y[2]].quantity > 0
           /\ \E g \in Range(ingredients) :
                  /\ g.id = recipe_portions[x[2]].ingredient_id
                  /\ \E r \in Range(ret.value) :
                         /\ r.ingredient = g.name
                         /\ r.cost = Round2(g.cost_per_unit *
                                (recipe_portions[x[2]].quantity + recipe_portions[y[2]].quantity))

\* C5: no row of the list is for an ingredient whose accumulated quantity is
\* zero.
C5_NoZeroRow ==
    ret.op = "generate_shopping_list" =>
        \A r \in Range(ret.value) :
            \A g \in Range(ingredients) :
                r.ingredient = g.name => Accumulated(ret.ingredient_totals, g.id) # 0

\* C6: a row is in "kg" with the total divided by 1000 exactly when the
\* ingredient's unit is "g" and the accumulated total is at least 1000;
\* otherwise it keeps unit and quantity; the cost is that of the unconverted
\* total either way (quantity and cost as printed, to 2 decimals).
C6_UnitPromotion ==
    ret.op = "generate_shopping_list" =>
        \A r \in Range(ret.value) :
            \E g \in Range(ingredients) :
                LET total == Accumulated(ret.ingredient_totals, g.id)
                IN  /\ r.ingredient = g.name
                    /\ r.cost = Round2(g.cost_per_unit * total)
                    /\ IF g.unit = "g" /\ total >= 1000
                       THEN r.unit = "kg" /\ r.quantity = Round2(total)
                       ELSE r.unit = g.unit /\ r.quantity = 1000 * total

\* Exactly 1000 g shown as 1 kg beside 1000 items shown as 1000 items.
C6_Witness ==
    /\ ret.op = "generate_shopping_list"
    /\ \E r1, r2 \in Range(ret.value) :
           /\ r1.unit = "kg" /\ r1.quantity = 1000 /\ r1.cost = 2000
           /\ r1.ingredient = "Rice"
           /\ r2.unit = "item" /\ r2.quantity = 1000 * 1000
    /\ \E e \in Range(ret.ingredient_totals) : e.total_qty = 1000

\* C7: the list is in ascending order of ingredient name under str's order.
C7_Sorted ==
    ret.op = "generate_shopping_list" =>
        \A i \in 1..(Len(ret.value) - 1) :
            ~StrLess(ret.value[i + 1].ingredient, ret.value[i].ingredient)

\* Two rows that were accumulated in the other order.
C7_Witness ==
    /\ ret.op = "generate_shopping_list"
    /\ Len(ret.value) = 2
    /\ Len(ret.ingredient_totals) = 2
    /\ \E g \in Range(ingredients) :
           /\ g.id = ret.ingredient_totals[1].ingredient_id
           /\ g.name = ret.value[2].ingredient


(***************************************************************************)
(* Properties of the totals of a week (SpecWeek).                          *)
(***************************************************************************)
NutrientNames == {"kcal", "protein", "carbs", "fat"}

\* The keys of a dict of person rows.
Persons(totals) == {totals[i].person : i \in DOMAIN totals}

\* A person's value of one nutrient in a dict of person rows, 0 when the
\* person is no key.
NutrientOf(totals, person, n) ==
    LET hit == SelectSeq(totals, LAMBDA r : r.person = person)
    IN  IF hit = <<>> THEN 0 ELSE hit[1][n]

\* The sum of a person's daily value of one nutrient over a set of dates.
RECURSIVE SumOfDays(_, _, _, _)
SumOfDays(d, dates, person, n) ==
    IF dates = {} THEN 0
    ELSE LET day == CHOOSE x \in dates : TRUE
         IN  NutrientOf(calculate_daily_totals(d, day), person, n)
                 + SumOfDays(d, dates \ {day}, person, n)

\* C8: the weekly totals are the sum of the seven daily totals: a person is
\* a key of the week iff a key of one of the seven days, once, and each
\* nutrient is the sum of the person's values on the days they are a key.
C8_WeeklyAdditive ==
    ret.op = "calculate_weekly_totals" =>
        LET week == ret.week_start..(ret.week_start + 6)
        IN  /\ Persons(ret.value) =
                   UNION {Persons(calculate_daily_totals(db, day)) : day \in week}
            /\ \A i, j \in DOMAIN ret.value :
                   ret.value[i].person = ret.value[j].person => i = j
            /\ \A r \in Range(ret.value) : \A n \in NutrientNames :
                   r[n] = SumOfDays(db,
                              {day \in week :
                                  r.person \in Persons(calculate_daily_totals(db, day))},
                              r.person, n)

\* A week where one person is a key on two days and the other on one only.
C8_Witness ==
    /\ ret.op = "calculate_weekly_totals"
    /\ ret.week_start = 0
    /\ Persons(ret.value) = {"Michael", "Lorna"}
    /\ Persons(calculate_daily_totals(db, 2)) = {"Michael"}
    /\ Persons(calculate_daily_totals(db, 6)) = {"Michael", "Lorna"}
    /\ NutrientOf(ret.value, "Michael", "kcal") =
           NutrientOf(calculate_daily_totals(db, 2), "Michael", "kcal")
               + NutrientOf(calculate_daily_totals(db, 6), "Michael", "kcal")
    /\ NutrientOf(calculate_daily_totals(db, 2), "Michael", "kcal") > 0
    /\ NutrientOf(calculate_daily_totals(db, 6), "Michael", "kcal") > 0

(***************************************************************************)
(* Properties of the totals and the cost of a day (SpecDay).               *)
(***************************************************************************)
\* A sequence without its i-th element.
RemoveAt(seq, i) == SubSeq(seq, 1, i - 1) \o SubSeq(seq, i + 1, Len(seq))

WithoutMeal(d, i) == [d EXCEPT !.week_plan = RemoveAt(@, i)]

WithoutPortion(d, i) == [d EXCEPT !.recipe_portions = RemoveAt(@, i)]

WithoutLog(d, i) == [d EXCEPT !.snack_log = RemoveAt(@, i)]

\* A change of the store moves the cost sum of a day iff it moves the totals.
SameEffect(d, changed, target_date) ==
    (daily_cost_sum(changed, target_date) # daily_cost_sum(d, target_date))
        <=> (calculate_daily_totals(changed, target_date)
                 # calculate_daily_totals(d, target_date))

\* C9: a week-plan row, a portion or a snack-log row counts for the cost of
\* a day iff it counts for the totals of that day: taking it away changes
\* the one iff it changes the other.
C9_SameTraversal ==
    ret.op \in {"calculate_daily_cost", "calculate_daily_totals"} =>
        /\ \A i \in DOMAIN week_plan : SameEffect(db, WithoutMeal(db, i), ret.target_date)
        /\ \A i \in DOMAIN recipe_portions :
               SameEffect(db, WithoutPortion(db, i), ret.target_date)
        /\ \A i \in DOMAIN snack_log : SameEffect(db, WithoutLog(db, i), ret.target_date)

\* The snack-log rows that are consumed on the date and whose snack and
\* ingredient resolve.
ResolvedEntry(d, e, target_date) ==
    /\ e.date = target_date
    /\ e.consumed
    /\ snack_first(d, e.snack_id) # <<>>
    /\ ingredient_first(d, snack_first(d, e.snack_id)[1].ingredient_id) # <<>>

EntrySnack(d, e) == snack_first(d, e.snack_id)[1]

EntryIngredient(d, e) == ingredient_first(d, EntrySnack(d, e).ingredient_id)[1]

\* The name of the person row a snack-log row points to (the API writes a
\* row only for a stored person).
EntryPerson(d, e) == (CHOOSE p \in Range(d.people) : p.id = e.person_id).name

\* What a snack-log row adds to the cost sum of the day.
AddsToCost(d, i, target_date) ==
    daily_cost_sum(d, target_date) - daily_cost_sum(WithoutLog(d, i), target_date)

\* What a snack-log row adds to a person's total of one nutrient.
AddsToTotal(d, i, target_date, person, n) ==
    NutrientOf(calculate_daily_totals(d, target_date), person, n)
        - NutrientOf(calculate_daily_totals(WithoutLog(d, i), target_date), person, n)

\* A snack-log row that is not consumed changes neither totals nor cost.
UnconsumedAddsNothing(target_date) ==
    \A i \in DOMAIN snack_log :
        snack_log[i].consumed = FALSE =>
            /\ calculate_daily_totals(WithoutLog(db, i), target_date)
                   = calculate_daily_totals(db, target_date)
            /\ daily_cost_sum(WithoutLog(db, i), target_date)
                   = daily_cost_sum(db, target_date)
            /\ calculate_daily_cost(WithoutLog(db, i), target_date)
                   = calculate_daily_cost(db, target_date)

\* A consumed row with snack and ingredient adds cost_per_unit * quantity.
ConsumedAddsCost(target_date) ==
    \A i \in DOMAIN snack_log :
        ResolvedEntry(db, snack_log[i], target_date) =>
            AddsToCost(db, i, target_date) =
                EntryIngredient(db, snack_log[i]).cost_per_unit
                    * EntrySnack(db, snack_log[i]).default_quantity

\* What a consumed row with snack and ingredient adds to its person's totals.
AddsNutrients(i, target_date) ==
    LET e == snack_log[i]
        g == EntryIngredient(db, e)
        qty == EntrySnack(db, e).default_quantity
        person == EntryPerson(db, e)
    IN  /\ AddsToTotal(db, i, target_date, person, "kcal") = g.kcal_per_unit * qty
        /\ AddsToTotal(db, i, target_date, person, "protein") = g.protein_per_unit * qty
        /\ AddsToTotal(db, i, target_date, person, "carbs") = g.carbs_per_unit * qty
        /\ AddsToTotal(db, i, target_date, person, "fat") = g.fat_per_unit * qty

WeekFieldsFor(value, d, week_start) ==
    /\ value.week_totals = totals_rows(calculate_weekly_totals(d, week_start))
    /\ value.week_cost = calculate_weekly_cost(d, week_start)
    /\ value.wed_shopping = generate_shopping_list(d, week_start, "wed")
    /\ value.sun_shopping = generate_shopping_list(d, week_start, "sun")
    /\ value.week_start = isoformat(week_start)

\* The summary fields that belong to today, computed for the date today
\* (the totals as the summary prints them, rounded per person).
TodayFieldsFor(value, d, today) ==
    /\ value.today_totals = totals_rows(calculate_daily_totals(d, today))
    /\ value.today_cost = calculate_daily_cost(d, today)

\* C17: week_summary computes today_totals and today_cost for the caller's
\* current date whatever week_start is passed, also when today is not one
\* of the 7 days of that week, and computes week_totals, week_cost and both
\* shopping lists for the week_start passed, which it echoes back.
C17_TodayIsToday ==
    (ret.op = "calculate_week_summary" /\ ret.week_start_arg # <<>>) =>
        /\ TodayFieldsFor(ret.value, db, ret.today)
        /\ WeekFieldsFor(ret.value, db, ret.week_start_arg[1])

\* A summary of the first week asked for on a day of the second week, with
\* a snack eaten today, none on the first day of the week asked for, and a
\* meal planned in that week.
C17_Witness ==
    /\ ret.op = "calculate_week_summary"
    /\ ret.week_start_arg = <<0>>
    /\ ret.today = 9
    /\ ret.value.today_cost = 500
    /\ ret.value.week_cost = 1010
    /\ Len(ret.value.today_totals) = 1
    /\ Len(ret.value.wed_shopping) = 1
    /\ calculate_daily_cost(db, 0) = 0

\* The Monday on or before d, found by search.
MondayOf(d) == CHOOSE m \in (d - 6)..d : get_day_name(m) = "mon"

\* C18: get_week_start(d) is a Monday, lies in d-6..d and is a fixed point
\* of get_week_start; without an argument it is the Monday of today's week;
\* week_summary without week_start, and GET /week-totals, summarise the
\* week of get_week_start(today).
C18_DefaultWeekIsMonday ==
    /\ ret.op = "get_week_start" =>
           LET d == IF ret.target_date_arg = <<>> THEN ret.today
                    ELSE ret.target_date_arg[1]
           IN  /\ get_day_name(ret.value) = "mon"
               /\ ret.value <= d
               /\ d <= ret.value + 6
               /\ get_week_start(ret.value) = ret.value
    /\ (ret.op = "calculate_week_summary" /\ ret.week_start_arg = <<>>) =>
           WeekFieldsFor(ret.value, db, MondayOf(ret.today))
    /\ ret.op = "get_week_totals" =>
           WeekFieldsFor(ret.value, db, MondayOf(ret.today))

\* GET /week-totals on a Wednesday of the second week, with a meal planned
\* in that week.
C18_Witness ==
    /\ ret.op = "get_week_totals"
    /\ ret.today = 9
    /\ ret.value.week_start = isoformat(7)
    /\ ret.value.week_cost > 0
    /\ Len(ret.value.wed_shopping) = 1

(***************************************************************************)
(* What the rows of the store contribute, written as sums over the rows.   *)
(***************************************************************************)
\* The sum of the values of a function with a finite domain.
RECURSIVE SumFn(_)
SumFn(f) ==
    IF DOMAIN f = {} THEN 0
    ELSE LET x == CHOOSE y \in DOMAIN f : TRUE
         IN  f[x] + SumFn([y \in DOMAIN f \ {x} |-> f[y]])

\* The (week-plan row, portion row) pairs of a date: the row has a recipe
\* and the portion is one of that recipe for the row's person.
MealPortionPairs(d, target_date) ==
    {pair \in (DOMAIN d.week_plan) \X (DOMAIN d.recipe_portions) :
        /\ d.week_plan[pair[1]].date = target_date
        /\ d.week_plan[pair[1]].recipe_id # 0
        /\ d.recipe_portions[pair[2]].recipe_id = d.week_plan[pair[1]].recipe_id
        /\ d.recipe_portions[pair[2]].person_id = d.week_plan[pair[1]].person_id}

\* The snack-log rows of a date that are consumed.
ConsumedLogs(d, target_date) ==
    {k \in DOMAIN d.snack_log :
        d.snack_log[k].date = target_date /\ d.snack_log[k].consumed}

\* The ingredient rows with an id, and the snack rows with an id.
IngredientRows(d, ingredient_id) == {g \in Range(d.ingredients) : g.id = ingredient_id}

SnackRows(d, snack_id) == {x \in Range(d.snacks) : x.id = snack_id}

\* cost_per_unit * qty of an ingredient, 0 when there is no such ingredient.
CostOf(d, ingredient_id, qty) ==
    IF IngredientRows(d, ingredient_id) = {} THEN 0
    ELSE (CHOOSE g \in IngredientRows(d, ingredient_id) : TRUE).cost_per_unit * qty

\* The cost of the snack of a snack-log row, 0 when snack or ingredient is missing.
SnackCostOf(d, k) ==
    IF SnackRows(d, d.snack_log[k].snack_id) = {} THEN 0
    ELSE LET x == CHOOSE y \in SnackRows(d, d.snack_log[k].snack_id) : TRUE
         IN  CostOf(d, x.ingredient_id, x.default_quantity)

\* The unrounded sum of all cost contributions of a date.
DayCostSum(d, target_date) ==
    SumFn([pair \in MealPortionPairs(d, target_date) |->
              CostOf(d, d.recipe_portions[pair[2]].ingredient_id,
                     d.recipe_portions[pair[2]].quantity)])
        + SumFn([k \in ConsumedLogs(d, target_date) |-> SnackCostOf(d, k)])

\* The value of one nutrient in a unit of an ingredient row.
PerUnit(g, n) ==
    CASE n = "kcal" -> g.kcal_per_unit
      [] n = "protein" -> g.protein_per_unit
      [] n = "carbs" -> g.carbs_per_unit
      [] n = "fat" -> g.fat_per_unit

\* per_unit * qty of an ingredient, 0 when there is no such ingredient.
NutrientValueOf(d, ingredient_id, qty, n) ==
    IF IngredientRows(d, ingredient_id) = {} THEN 0
    ELSE PerUnit(CHOOSE g \in IngredientRows(d, ingredient_id) : TRUE, n) * qty

\* The nutrient of the snack of a snack-log row, 0 when snack or ingredient
\* is missing.
SnackNutrientOf(d, k, n) ==
    IF SnackRows(d, d.snack_log[k].snack_id) = {} THEN 0
    ELSE LET x == CHOOSE y \in SnackRows(d, d.snack_log[k].snack_id) : TRUE
         IN  NutrientValueOf(d, x.ingredient_id, x.default_quantity, n)

\* The ids of the people rows with a name.
IdsNamed(d, person) == {p.id : p \in {q \in Range(d.people) : q.name = person}}

\* The unrounded sum of what the rows of a date contribute to one nutrient
\* of the person with a name.
DayNutrientSum(d, target_date, person, n) ==
    SumFn([pair \in {x \in MealPortionPairs(d, target_date) :
                        d.week_plan[x[1]].person_id \in IdsNamed(d, person)} |->
              NutrientValueOf(d, d.recipe_portions[pair[2]].ingredient_id,
                              d.recipe_portions[pair[2]].quantity, n)])
        + SumFn([k \in {x \in ConsumedLogs(d, target_date) :
                          d.snack_log[x].person_id \in IdsNamed(d, person)} |->
                    SnackNutrientOf(d, k, n)])

(***************************************************************************)
(* Properties of the cost (SpecCost).                                      *)
(***************************************************************************)
\* C15: daily_cost is the 2-decimal rounding of the day's summed
\* contributions, and weekly_cost is the 2-decimal rounding of the sum of
\* the seven daily_cost values, each already rounded.
C15_RoundedTwice ==
    /\ ret.op = "calculate_daily_cost" =>
           ret.value = Round2(DayCostSum(db, ret.target_date))
    /\ ret.op = "calculate_weekly_cost" =>
           ret.value = Round2(SumFn([i \in 0..6 |->
                                       Round2(DayCostSum(db, ret.week_start + i))]))

\* The cost of a week with 0.504 on each of two days: 0.50 + 0.50 = 1.00,
\* where the unrounded sum 1.008 rounds to 1.01.
C15_Witness ==
    /\ ret.op = "calculate_weekly_cost"
    /\ ret.week_start = 0
    /\ DayCostSum(db, 2) = 504
    /\ DayCostSum(db, 6) = 504
    /\ ret.value = 1000

\* C14 as stated: no value added into a running sum has been rounded, so
\* weekly_cost is the 2-decimal rounding of the unrounded sum of all cost
\* contributions of the seven days.
C14_AsStated ==
    ret.op = "calculate_weekly_cost" =>
        ret.value = Round2(SumFn([i \in 0..6 |-> DayCostSum(db, ret.week_start + i)]))

\* C14, amended: inside a day nothing is rounded before it is added (the
\* running total_cost of daily_cost is the unrounded sum of the day), and
\* the weekly nutrition totals are unrounded sums of unrounded
\* contributions; weekly_cost alone adds rounded values, the seven daily
\* costs, so it is the rounding of the sum of the rounded sums of the days.
C14_RoundedPerDay ==
    /\ ret.op = "calculate_daily_cost" =>
           ret.total_cost = DayCostSum(db, ret.target_date)
    /\ ret.op = "calculate_weekly_totals" =>
           \A person \in Persons(ret.value), n \in NutrientNames :
               NutrientOf(ret.value, person, n) =
                   SumFn([i \in 0..6 |->
                             DayNutrientSum(db, ret.week_start + i, person, n)])
    /\ ret.op = "calculate_weekly_cost" =>
           ret.value = Round2(SumFn([i \in 0..6 |->
                                       Round2(DayCostSum(db, ret.week_start + i))]))

\* The cost of a week whose days sum to 0.504 and 1.512: the days round to
\* 0.50 and 1.51 and the week is 2.01, where the unrounded sum 2.016 rounds
\* to 2.02.
C14_Witness ==
    /\ ret.op = "calculate_weekly_cost"
    /\ ret.week_start = 0
    /\ DayCostSum(db, 6) = 504
    /\ DayCostSum(db, 2) = 1512
    /\ ret.value = 2010

(***************************************************************************)
(* Properties of rows that point nowhere (SpecNull, SpecDangling).         *)
(***************************************************************************)
\* The result the last call of the engine returns on a store d.
ResultOn(d) ==
    CASE ret.op = "calculate_daily_totals" -> calculate_daily_totals(d, ret.target_date)
      [] ret.op = "calculate_daily_cost" -> calculate_daily_cost(d, ret.target_date)
      [] ret.op = "calculate_weekly_totals" -> calculate_weekly_totals(d, ret.week_start)
      [] ret.op = "calculate_weekly_cost" -> calculate_weekly_cost(d, ret.week_start)
      [] ret.op = "generate_shopping_list" ->
             generate_shopping_list(d, ret.week_start, ret.batch)

EngineResults ==
    {"calculate_daily_totals", "calculate_daily_cost", "calculate_weekly_totals",
     "calculate_weekly_cost", "generate_shopping_list"}

\* C11: a week-plan row without a recipe contributes nothing: daily_totals,
\* daily_cost, weekly_totals, weekly_cost and both shopping lists return on
\* the store with the row what they return on the store without it.
C11_NullRecipeNothing ==
    ret.op \in EngineResults =>
        /\ ret.value = ResultOn(db)
        /\ \A i \in DOMAIN week_plan :
               week_plan[i].recipe_id = 0 => ResultOn(WithoutMeal(db, i)) = ret.value

\* The cost of a day with a meal of the recipe and a row without a recipe
\* of the same person, who has a portion of the recipe.
C11_Witness ==
    /\ ret.op = "calculate_daily_cost"
    /\ ret.value > 0
    /\ \E i \in DOMAIN week_plan :
           /\ week_plan[i].date = ret.target_date
           /\ week_plan[i].recipe_id = 0
           /\ \E q \in Range(recipe_portions) : q.person_id = week_plan[i].person_id
    /\ \E i \in DOMAIN week_plan :
           /\ week_plan[i].date = ret.target_date
           /\ week_plan[i].recipe_id # 0

\* A row points to a person, a snack or an ingredient that is no row.
NoPerson(d, person_id) == \A p \in Range(d.people) : p.id # person_id

NoIngredient(d, ingredient_id) == IngredientRows(d, ingredient_id) = {}

NoSnack(d, snack_id) == SnackRows(d, snack_id) = {}

WithoutSnack(d, i) == [d EXCEPT !.snacks = RemoveAt(@, i)]

\* The stored rows with a missing reference, as stores without the row.
WithoutDanglingRow(d) ==
    {WithoutPortion(d, j) : j \in {x \in DOMAIN d.recipe_portions :
        \/ NoIngredient(d, d.recipe_portions[x].ingredient_id)
        \/ NoPerson(d, d.recipe_portions[x].person_id)}}
    \cup {WithoutSnack(d, i) : i \in {x \in DOMAIN d.snacks :
              NoIngredient(d, d.snacks[x].ingredient_id)}}
    \cup {WithoutLog(d, k) : k \in {x \in DOMAIN d.snack_log :
              \/ NoSnack(d, d.snack_log[x].snack_id)
              \/ NoPerson(d, d.snack_log[x].person_id)
              \/ \E y \in SnackRows(d, d.snack_log[x].snack_id) :
                     NoIngredient(d, y.ingredient_id)}}
    \cup {WithoutMeal(d, i) : i \in {x \in DOMAIN d.week_plan :
              NoPerson(d, d.week_plan[x].person_id)}}

\* Rows of a date that point to person 9 or snack 9, which are no rows.
DanglingMeals(d, target_date) ==
    {[id |-> NextId(d.week_plan), date |-> target_date, person_id |-> 9,
      meal_type |-> "dinner", recipe_id |-> r] : r \in {1, 9}}

DanglingLogs(d, target_date) ==
    {[id |-> NextId(d.snack_log), date |-> target_date, person_id |-> ids[1],
      snack_id |-> ids[2], consumed |-> TRUE] : ids \in {<<9, 1>>, <<1, 9>>, <<9, 9>>}}

\* The stores with one more row that has a missing reference.
WithDanglingRow(d, target_date) ==
    {[d EXCEPT !.week_plan = Append(@, m)] : m \in DanglingMeals(d, target_date)}
    \cup {[d EXCEPT !.snack_log = Append(@, e)] : e \in DanglingLogs(d, target_date)}

\* The accumulated ingredient ids that are ingredient rows.
ResolvedKeys(d, ingredient_totals) ==
    {i \in DOMAIN ingredient_totals :
        ~NoIngredient(d, ingredient_totals[i].ingredient_id)}

\* C12: rows that point to a person, a snack or an ingredient that does not
\* exist are skipped: daily_totals, daily_cost and shopping_list return a
\* value on every store that holds such rows, such a row adds nothing to a
\* nutrition total, and the shopping list has a row for each accumulated
\* ingredient id that is an ingredient row and for no other.
C12_MissingSkipped ==
    /\ ret.op = "calculate_daily_totals" =>
           /\ \A without \in WithoutDanglingRow(db) :
                  calculate_daily_totals(without, ret.target_date) = ret.value
           /\ \A with \in WithDanglingRow(db, ret.target_date) :
                  calculate_daily_totals(with, ret.target_date) = ret.value
    /\ ret.op = "calculate_daily_cost" =>
           /\ ret.value >= 0
           /\ \A with \in WithDanglingRow(db, ret.target_date) :
                  calculate_daily_cost(with, ret.target_date) >= ret.value
    /\ ret.op = "generate_shopping_list" =>
           /\ Len(ret.value) = Cardinality(ResolvedKeys(db, ret.ingredient_totals))
           /\ \A row \in Range(ret.value) :
                  \E i \in ResolvedKeys(db, ret.ingredient_totals) :
                      row.ingredient =
                          ingredient_first(db, ret.ingredient_totals[i].ingredient_id)[1].name
           /\ \A with \in WithDanglingRow(db, ret.week_start + 2) :
                  Len(generate_shopping_list(with, ret.week_start, ret.batch)) =
                      Cardinality(ResolvedKeys(with,
                          shopping_totals(with, ret.week_start, ret.batch)))

\* The totals of a day with a portion of the ingredient, a portion of an
\* ingredient that is no row, a portion for a person that is no row and a
\* consumed snack whose ingredient is no row.
C12_Witness ==
    /\ ret.op = "calculate_daily_totals"
    /\ NutrientOf(ret.value, "Michael", "kcal") = 104000
    /\ \E pair \in MealPortionPairs(db, ret.target_date) :
           NoIngredient(db, recipe_portions[pair[2]].ingredient_id)
    /\ \E q \in Range(recipe_portions) : NoPerson(db, q.person_id)
    /\ \E k \in ConsumedLogs(db, ret.target_date) :
           \E y \in SnackRows(db, snack_log[k].snack_id) : NoIngredient(db, y.ingredient_id)

(***************************************************************************)
(* Properties of who appears in the totals of a day and with what values   *)
(* (SpecDay, SpecDup).                                                     *)
(***************************************************************************)
\* A person has a contribution on a date: a portion, with its ingredient,
\* of one of their week-plan rows, or one of their consumed snack-log rows
\* with its snack and ingredient.
HasContribution(d, person_id, target_date) ==
    \/ \E pair \in MealPortionPairs(d, target_date) :
           /\ d.week_plan[pair[1]].person_id = person_id
           /\ ~NoIngredient(d, d.recipe_portions[pair[2]].ingredient_id)
    \/ \E k \in ConsumedLogs(d, target_date) :
           /\ d.snack_log[k].person_id = person_id
           /\ \E y \in SnackRows(d, d.snack_log[k].snack_id) :
                  ~NoIngredient(d, y.ingredient_id)

C16_DuplicatesSummed ==
    ret.op = "calculate_daily_totals" =>
        \A person \in Persons(ret.value), n \in NutrientNames :
            NutrientOf(ret.value, person, n) =
                DayNutrientSum(db, ret.target_date, person, n)

\* The totals of a day on which a person has the recipe in two slots, the
\* recipe holds the same portion twice and the person ate a snack: four
\* portions of 2 units and one snack of 1 unit.
C16_Witness ==
    /\ ret.op = "calculate_daily_totals"
    /\ \E i, j \in DOMAIN recipe_portions :
           /\ i # j
           /\ recipe_portions[i].quantity = 2
           /\ [recipe_portions[i] EXCEPT !.id = 0] = [recipe_portions[j] EXCEPT !.id = 0]
    /\ Cardinality({pair \in MealPortionPairs(db, ret.target_date) :
                        week_plan[pair[1]].person_id = 1}) = 4
    /\ ConsumedLogs(db, ret.target_date) # {}
    /\ NutrientOf(ret.value, "Michael", "kcal") = 9 * 52000

(***************************************************************************)
(* Properties of invocations that run at the same time (SpecConc).         *)
(***************************************************************************)
\* C20: over a store that does not change, an invocation of week_summary
\* that ran interleaved with another one, query by query, returns what the
\* same call returns when it runs alone on that store.
C20_InterleavedAsAlone ==
    ret.op = "week_summary_returned" =>
        ret.value = calculate_week_summary(db, <<ret.week_start>>, ret.today)

\* An invocation has returned a week with a cost after taking steps inside a
\* loop the other invocation was in, and the other one is still running.
C20_Witness ==
    /\ ret.op = "week_summary_returned"
    /\ ret.overlapped
    /\ ret.value.week_cost > 0
    /\ ret.value.wed_shopping # <<>>
    /\ \E o \in Callers \ {ret.caller} : inflight[o].pc \notin {"idle", "today_totals"}

(***************************************************************************)
(* Properties of what the engine writes (SpecEngine).                      *)
(***************************************************************************)
EngineOps ==
    {"calculate_daily_totals", "calculate_weekly_totals", "calculate_daily_cost",
     "calculate_weekly_cost", "generate_shopping_list", "calculate_week_summary",
     "get_week_totals"}

\* C19: the engine performs no writes: a call of daily_totals, weekly_totals,
\* daily_cost, weekly_cost, the shopping list or the week summary leaves every
\* table as it was.
C19_NoWrites == [][ret'.op \in EngineOps => tables' = tables]_vars

\* The week summary has been computed over a store with a planned recipe and
\* a consumed snack, and it has a cost and a shopping row.
C19_Witness ==
    /\ ret.op = "calculate_week_summary"
    /\ week_plan # <<>>
    /\ snack_log # <<>>
    /\ ret.value.week_cost > 0
    /\ ret.value.today_totals # <<>>
    /\ ret.value.wed_shopping # <<>>

(***************************************************************************)
(* Properties of the bulk update of the week plan (SpecPlan).              *)
(***************************************************************************)
SlotOf(row) == <<row.date, row.person_id, row.meal_type>>

UniqueSlots(plan) ==
    \A i, j \in DOMAIN plan : SlotOf(plan[i]) = SlotOf(plan[j]) => i = j

\* The week plan the request leaves when it is applied to the store d.
plan_after(d, update) ==
    LET st == plan_loop(d, update, 1,
                        [plan |-> d.week_plan, added |-> <<>>, updated_count |-> 0])
    IN  st.plan \o with_ids(st.plan, st.added)

\* C21: after any sequence of bulk updates of a week plan that starts with at
\* most one row per (date, person_id, meal_type), a request that names a slot
\* twice included, the table has at most one row per (date, person_id,
\* meal_type).
C21_OneRowPerSlot == UniqueSlots(week_plan)

DayNames == <<"mon", "tue", "wed", "thu", "fri", "sat", "sun">>

IsDay(day) == \E n \in DOMAIN DayNames : DayNames[n] = Lower(day)

KnownPerson(d, name) == \E p \in Range(d.people) : Lower(p.name) = Lower(name)

\* The selections of the request with a day of mon..sun and the name of a
\* stored person, in either case of letters.
ValidSelections(d, update) ==
    {i \in DOMAIN update.meals : /\ IsDay(update.meals[i].day)
                                 /\ KnownPerson(d, update.meals[i].person)}

\* The slot a valid selection names.
TargetOf(d, update, i) ==
    <<update.week_start + (CHOOSE n \in DOMAIN DayNames :
                               DayNames[n] = Lower(update.meals[i].day)) - 1,
      (CHOOSE p \in Range(d.people) : Lower(p.name) = Lower(update.meals[i].person)).id,
      Lower(update.meals[i].meal_type)>>

TargetSlots(d, update) == {TargetOf(d, update, i) : i \in ValidSelections(d, update)}

\* The rows of the table after the step that are new or differ from before.
Touched == {i \in DOMAIN week_plan' : i > Len(week_plan) \/ week_plan'[i] # week_plan[i]}

\* C22: a selection whose day is not one of mon..sun or whose person is no
\* stored person is skipped without error and without being counted: the
\* count returned is the number of selections with a valid day and a known
\* person, every row the request creates or changes is the slot of such a
\* selection, and a request without one leaves the table as it was.
C22_InvalidSkipped ==
    [][\A update \in PlanUpdateInputs :
          bulk_update_week_plan(update) =>
              /\ ret'.updated_count = Cardinality(ValidSelections(db, update))
              /\ \A i \in Touched : SlotOf(week_plan'[i]) \in TargetSlots(db, update)
              /\ ValidSelections(db, update) = {} => week_plan' = week_plan]_vars

\* A request whose selections were all skipped was answered with the count 0
\* over a table that has rows.
C22_Witness ==
    /\ ret.op = "bulk_update_week_plan"
    /\ ret.updated_count = 0
    /\ week_plan # <<>>

\* The valid selections that no later valid selection of the request names
\* the slot of.
LastSelections(d, update) ==
    {i \in ValidSelections(d, update) :
        \A j \in ValidSelections(d, update) :
            TargetOf(d, update, j) = TargetOf(d, update, i) => j <= i}

RecipesNamed(d, name) == {r.id : r \in {q \in Range(d.recipes) : Lower(q.name) = Lower(name)}}

\* The first row of the slot, which is the one the find query returns.
FirstRowOf(plan, slot) ==
    plan[CHOOSE i \in DOMAIN plan :
             /\ SlotOf(plan[i]) = slot
             /\ \A j \in DOMAIN plan : SlotOf(plan[j]) = slot => i <= j]

\* The row of the slot the selection has written: the row the slot had before
\* the request, or else the last row the request added for the slot.
WrittenRow(before, after, slot) ==
    IF \E i \in DOMAIN before : SlotOf(before[i]) = slot
    THEN FirstRowOf(after, slot)
    ELSE after[CHOOSE i \in DOMAIN after :
                   /\ SlotOf(after[i]) = slot
                   /\ \A j \in DOMAIN after : SlotOf(after[j]) = slot => j <= i]

\* C23: a selection whose recipe_name is blank, the placeholder or the name of
\* no stored recipe sets the recipe_id of its slot to null, whatever was
\* planned there, and a selection that names a stored recipe, in either case
\* of letters, sets it to that recipe.
C23_BlankSetsNull ==
    [][\A update \in PlanUpdateInputs :
          bulk_update_week_plan(update) =>
              \A i \in LastSelections(db, update) :
                  LET name == update.meals[i].recipe_name
                      row == WrittenRow(week_plan, week_plan', TargetOf(db, update, i))
                  IN  IF name = "" \/ name = Dash \/ RecipesNamed(db, name) = {}
                      THEN row.recipe_id = 0
                      ELSE row.recipe_id \in RecipesNamed(db, name)]_vars

\* C24: a bulk update changes only the slots the request names: a row whose
\* (date, person_id, meal_type) is not the target of a valid selection of the
\* request is after the request what it was before, and no row is deleted
\* (every row keeps its place, id and slot).
C24_OtherSlotsKept ==
    [][\A update \in PlanUpdateInputs :
          bulk_update_week_plan(update) =>
              /\ Len(week_plan') >= Len(week_plan)
              /\ \A i \in DOMAIN week_plan :
                    /\ week_plan'[i].id = week_plan[i].id
                    /\ SlotOf(week_plan'[i]) = SlotOf(week_plan[i])
                    /\ SlotOf(week_plan[i]) \notin TargetSlots(db, update)
                           => week_plan'[i] = week_plan[i]]_vars

\* The table holds a dinner planned with the recipe and a lunch of the same
\* person and day without one, and the last request was a bulk update that
\* counted one selection.
C24_Witness ==
    /\ ret.op = "bulk_update_week_plan"
    /\ ret.updated_count = 1
    /\ \E i, j \in DOMAIN week_plan :
          /\ week_plan[i].meal_type = "dinner" /\ week_plan[i].recipe_id # 0
          /\ week_plan[j].meal_type = "lunch" /\ week_plan[j].recipe_id = 0

\* C25: applying the same request twice in succession leaves the week plan
\* as applying it once does.
C25_Idempotent ==
    [][\A update \in PlanUpdateInputs :
          bulk_update_week_plan(update) => plan_after(db', update) = week_plan']_vars

(***************************************************************************)
(* SpecResync: _sync_from_notion runs again and again over a Plan database *)
(* the user fills, with pages for the same helper among them; between the  *)
(* runs the user changes a helper and MealPlanner handles the state        *)
(* changes.  A run starts when the queue of callbacks is empty.            *)
(***************************************************************************)
ResyncPageInputs ==
    {UserPage("dinner of Wednesday", "Michael", 1),
     UserPage("another dinner", " Michael ", 3),
     UserPage("lunch of a guest", "Guest", 2)}

ResyncSelections == {<<DinnerHelper, "Curry">>, <<LunchHelper, Dash>>}

NextResync ==
    \/ MealPlanner_initialize
    \/ \E page \in ResyncPageInputs : notion_user_adds_plan_page(page)
    \/ /\ planner.pc = "idle"
       /\ \E selection \in ResyncSelections : ha_user_selects(selection[1], selection[2])
    \/ planner.pending = <<>> /\ _sync_from_notion_begin
    \/ _sync_from_notion_query
    \/ _sync_from_notion_page
    \/ _sync_from_notion_end
    \/ _on_ha_meal_changed

SpecResync == Init /\ [][NextResync]_vars

(***************************************************************************)
(* SpecNotionSync: the user fills the database of NotionMealSync in        *)
(* Notion and edits helpers in Home Assistant; the app polls Notion and    *)
(* handles the state changes, those of its own service calls among them.   *)
(* A run starts when the queue of callbacks is empty.                      *)
(***************************************************************************)
WeekPage(week_start, mealtype, meal, prep, wed_shop) ==
    [id |-> 0, week_start |-> week_start, day |-> <<"Wed">>, mealtype |-> <<mealtype>>,
     person |-> <<"Michael">>, meal |-> meal, prep |-> prep, cook |-> "",
     wed_shop |-> wed_shop, sun_shop |-> ""]

WeekPageInputs ==
    {WeekPage(0, "Dinner", <<"Curry">>, "chop", "milk"),
     WeekPage(0, "Dinner", <<"Curry">>, "", ""),
     WeekPage(0, "Lunch", <<>>, "", " milk "),
     WeekPage(7, "Dinner", <<"Stew">>, "soak", "eggs")}

NotionSelections ==
    {<<DinnerHelper, "Stew">>,
     <<<<"input_text", "sun", "food", "shop", "list">>, "rice">>,
     <<<<"input_text", "cook", "notes", "wed">>, "roast">>}

NextNotionSync ==
    \/ NotionMealSync_initialize
    \/ \E page \in WeekPageInputs : notion_user_adds_week_page(page)
    \/ \E selection \in NotionSelections : ha_user_selects(selection[1], selection[2])
    \/ notion_sync.pending = <<>> /\ sync_notion_to_ha
    \/ on_ha_change

SpecNotionSync == Init /\ [][NextNotionSync]_vars

(***************************************************************************)
(* Properties of MealPlanner (SpecEcho, SpecUpsert, SpecResync).           *)
(***************************************************************************)
NotionWrites == {"create", "update"}

\* C26: a callback for a state change that a write of _sync_from_notion
\* caused returns without a Notion create or update, however long the
\* requests of the run take.
C26_NoEcho ==
    \A k \in DOMAIN planner.last :
        planner.last[k].by = "sync" => Range(planner.last[k].requests) \cap NotionWrites = {}

UniqueTitles(pages) == \A i, j \in DOMAIN pages : pages[i].title = pages[j].title => i = j

\* The step is a callback of MealPlanner: the head of its queue is taken.
PlannerCallback ==
    /\ planner.pending # <<>>
    /\ planner'.pending = Tail(planner.pending)
    /\ Len(planner'.pending) < Len(planner.pending)

\* The title _on_ha_meal_changed builds for the helper of an event.
TitleFor(entity) ==
    <<Capitalize(entity[5]), Capitalize(entity[3]),
      isoformat(_week_start(PlannerToday) +
                (CHOOSE n \in 0..6 : order[n + 1] = entity[4]))>>

\* C27: with callbacks one at a time and every request successful, a Plan
\* page is created only if no page has the title '<Person> <MealType>
\* <date>', otherwise the first page with the title is updated and none is
\* created, so the Plan database keeps at most one page per title.
C27_UniqueByTitle ==
    [][PlannerCallback =>
          LET title == TitleFor(Head(planner.pending).entity)
              had == {i \in DOMAIN plan_pages : plan_pages[i].title = title}
          IN  /\ UniqueTitles(plan_pages) => UniqueTitles(plan_pages')
              /\ Len(plan_pages') > Len(plan_pages) =>
                    /\ had = {}
                    /\ Len(plan_pages') = Len(plan_pages) + 1
                    /\ plan_pages'[Len(plan_pages')].title = title
              /\ \A i \in DOMAIN plan_pages :
                    plan_pages'[i] # plan_pages[i] =>
                        /\ i \in had /\ \A j \in had : i <= j
                        /\ plan_pages'[i].id = plan_pages[i].id
                        /\ plan_pages'[i].title = title]_vars

\* The Plan database holds two pages, and the last callback updated one of
\* them with another meal.
C27_Witness ==
    /\ Len(plan_pages) = 2
    /\ planner.last # <<>>
    /\ planner.last[1].requests = <<"query_meals", "query_plan", "update">>
    /\ planner.last[1].old # <<Dash>>

BlankStrings == {"", " ", Dash, " - "}

BlankEvent(ev) == ev.new = <<>> \/ ev.new = ev.old \/ ev.new[1] \in BlankStrings

\* C28: for a state change whose new value is None, equal to the old value,
\* empty or whitespace, or the placeholder, _on_ha_meal_changed makes no
\* Notion request at all, and the Plan pages are after it what they were.
C28_NoBlankWrite ==
    [][PlannerCallback /\ BlankEvent(Head(planner.pending)) =>
          /\ planner'.last[1].requests = <<>>
          /\ plan_pages' = plan_pages]_vars

\* The last callback was for a helper that went from a meal to the
\* placeholder padded with blanks, over a Plan database that has a page.
C28_Witness ==
    /\ planner.last # <<>>
    /\ planner.last[1].new = <<" - ">>
    /\ planner.last[1].old \in {<<"Curry">>, <<"Stew">>}
    /\ planner.last[1].requests = <<>>
    /\ plan_pages # <<>>

\* The helper a page of a run is for and the meal name it carries: <<>> for
\* a page the loop skips.
HelperOf(p, week_start) ==
    LET call == sync_page_call(p, week_start)
    IN  IF call = <<>> THEN <<>>
        ELSE <<[entity |-> <<"input_select", "meal", call[1].meal_type, call[1].dow,
                             call[1].person>>,
                meal_name |-> call[1].meal_name]>>

\* Every page the loop does not skip names what its helper holds.
Matches(pages, states) ==
    \A p \in Range(pages) :
        LET h == HelperOf(p, _week_start(PlannerToday))
        IN  h # <<>> => states[h[1].entity] = h[1].meal_name

\* The pages of one helper name one meal.
OneMealPerHelper(pages) ==
    \A p, q \in Range(pages) :
        LET h == HelperOf(p, _week_start(PlannerToday))
            g == HelperOf(q, _week_start(PlannerToday))
        IN  h # <<>> /\ g # <<>> /\ h[1].entity = g[1].entity
                => h[1].meal_name = g[1].meal_name

\* The last two runs read the same pages and no helper changed in between.
SecondRun ==
    /\ Len(planner.runs) = 2
    /\ planner.runs[2].pages = planner.runs[1].pages
    /\ planner.runs[2].before = planner.runs[1].after

C30_NotionUnchanged ==
    \A k \in DOMAIN notion_sync.last :
        notion_sync.last[k].by = "sync" => notion_sync.last[k].changed = {}

====
